---- MODULE Spec2Model ----
(***************************************************************************)
(* ChatLab AI assistant core: the incremental tag-stream parser of         *)
(* electron/main/ai/agent.ts (createStreamParser) and the session context  *)
(* log of electron/main/ai/context/sessionLog.ts (AgentSessionLog).        *)
(*                                                                         *)
(* Strings are sequences of characters; a character is a one-element TLA+  *)
(* string, except the two code units U+0130 (capital I with dot above) and *)
(* U+0307 (combining dot above), written "U0130" and "U0307".              *)
(***************************************************************************)
EXTENDS Integers, Sequences, FiniteSets, TLC

VARIABLES
    \* ---- createStreamParser closure state (agent.ts:123-125)
    buffer, mode, currentThinkTag,
    \* ---- the stream driving the parser and what the handlers received
    text, input, phase, contentOut, thinkOut,
    \* ---- AgentSessionLog fields (sessionLog.ts:66-74)
    nodes, tags, checkouts, pendingSystemNotes, activeAnchorNodeId, bootstrapped,
    \* ---- bookkeeping of the log's driver
    appended, lastCheckout,
    \* ---- the module-level registry of logs (sessionLog.ts:318) and its callers
    sessionLogs, logsCreated, held,
    \* ---- one Agent's executeStream on the log (agent.ts:1268)
    turnPhase, historyForPrompt, systemNotes, turnStart, streamed, finalRawContent, outcome,
    \* ---- one response of the stream function (agent.ts:913)
    accumulatedContent, hasToolCalls, toolCalls,
    partialContent, activeTextIndex, activeThinkingIndex, streamEvents,
    \* ---- agents of several sessions, each on the log the registry gave it
    sessionOf, logOf, logStore

parserVars == <<buffer, mode, currentThinkTag, text, input, phase, contentOut, thinkOut>>
logVars == <<nodes, tags, checkouts, pendingSystemNotes, activeAnchorNodeId, bootstrapped,
             appended, lastCheckout>>
registryVars == <<sessionLogs, logsCreated, held>>
turnVars == <<turnPhase, historyForPrompt, systemNotes, turnStart, streamed, finalRawContent, outcome>>
streamVars == <<accumulatedContent, hasToolCalls, toolCalls,
                partialContent, activeTextIndex, activeThinkingIndex, streamEvents>>
sessionVars == <<sessionOf, logOf, logStore>>
vars == <<parserVars, logVars, registryVars, turnVars, streamVars, sessionVars>>

\* null / undefined where a node id is expected; ids are never empty.
NULL == <<>>

(***************************************************************************)
(* JavaScript string primitives                                            *)
(***************************************************************************)
Min(a, b) == IF a < b THEN a ELSE b
Max(a, b) == IF a > b THEN a ELSE b

\* String.prototype.slice(from) and slice(from, to) for non-negative arguments:
\* both ends are clamped to the length; indices are 0-based, `to` exclusive.
SliceFrom(s, from) == SubSeq(s, Min(from, Len(s)) + 1, Len(s))
Slice(s, from, to) == SubSeq(s, Min(from, Len(s)) + 1, Min(to, Len(s)))

StartsWith(s, p) == Len(p) <= Len(s) /\ SubSeq(s, 1, Len(p)) = p

\* String.prototype.indexOf: the least 0-based index of an occurrence, or -1.
IndexOf(s, p) ==
    LET hits == {i \in 0..(Len(s) - Len(p)) :
                    (p # <<>> => s[i + 1] = p[1]) /\ SubSeq(s, i + 1, i + Len(p)) = p}
    IN IF hits = {} THEN -1 ELSE CHOOSE i \in hits : \A j \in hits : i <= j

Contains(s, p) == IndexOf(s, p) # -1

UpperAZ == <<"A","B","C","D","E","F","G","H","I","J","K","L","M",
             "N","O","P","Q","R","S","T","U","V","W","X","Y","Z">>
LowerAZ == <<"a","b","c","d","e","f","g","h","i","j","k","l","m",
             "n","o","p","q","r","s","t","u","v","w","x","y","z">>

\* String.prototype.toLowerCase on one code unit: A-Z map to a-z, U+0130 maps
\* to the two code units "i" U+0307 (Unicode SpecialCasing), the rest is kept.
LowerTable ==
    [c \in {UpperAZ[k] : k \in 1..26} |-> LowerAZ[CHOOSE k \in 1..26 : UpperAZ[k] = c]]

LowerChar(c) ==
    IF c = "U0130" THEN <<"i", "U0307">>
    ELSE IF c \in DOMAIN LowerTable THEN <<LowerTable[c]>>
    ELSE <<c>>

RECURSIVE LowerFrom(_, _)
LowerFrom(s, i) == IF i > Len(s) THEN <<>> ELSE LowerChar(s[i]) \o LowerFrom(s, i + 1)

ToLowerCase(s) == LowerFrom(s, 1)

(***************************************************************************)
(* Markers (agent.ts:35-38, 127-131)                                       *)
(***************************************************************************)
THINK_TAGS == <<
    <<"t","h","i","n","k">>,
    <<"a","n","a","l","y","s","i","s">>,
    <<"r","e","a","s","o","n","i","n","g">>,
    <<"r","e","f","l","e","c","t","i","o","n">>,
    <<"t","h","o","u","g","h","t">>,
    <<"t","h","i","n","k","i","n","g">> >>

THINK_START_TAGS == [k \in 1..Len(THINK_TAGS) |-> <<"<">> \o THINK_TAGS[k] \o <<">">>]
TOOL_CALL_START_TAG == <<"<","t","o","o","l","_","c","a","l","l",">">>
TOOL_CALL_END_TAG == <<"<","/","t","o","o","l","_","c","a","l","l",">">>

startTags == THINK_START_TAGS \o <<TOOL_CALL_START_TAG>>
startTagsLower == [k \in 1..Len(startTags) |-> ToLowerCase(startTags[k])]
toolCallStartLower == ToLowerCase(TOOL_CALL_START_TAG)
toolCallEndLower == ToLowerCase(TOOL_CALL_END_TAG)
\* Mutation of maxStartTagLength: one more than the longest start marker,
\* so that the retained tail is as long as that marker.
maxStartTagLength_OneMore == Len(THINK_START_TAGS[4]) + 1

maxStartTagLength ==
    CHOOSE n \in {Len(startTags[k]) : k \in 1..Len(startTags)} :
        \A k \in 1..Len(startTags) : Len(startTags[k]) <= n

\* findNextTagIndex returning null.
NoHit == [index |-> -1, tag |-> <<>>]

\* for (const tag of startTagsLower) { ... } keeping the first tag that reaches
\* the least index (agent.ts:136-142); `hit` is <hitIndex, hitTag> so far.
RECURSIVE scanStartTags(_, _, _)
scanStartTags(lowerBuffer, k, hit) ==
    IF k > Len(startTagsLower) THEN hit
    ELSE LET index == IndexOf(lowerBuffer, startTagsLower[k])
         IN scanStartTags(lowerBuffer, k + 1,
                IF index # -1 /\ (hit.index = -1 \/ index < hit.index)
                THEN [index |-> index, tag |-> startTagsLower[k]]
                ELSE hit)

findNextTagIndex(lowerBuffer) == scanStartTags(lowerBuffer, 1, NoHit)

(***************************************************************************)
(* The parser: p = [buffer, mode, currentThinkTag, events]                 *)
(***************************************************************************)
SafetyLimit == 10000

TextEv(s) == [type |-> "text", text |-> s, tag |-> <<>>]
ThinkEv(s, tag) == [type |-> "think", text |-> s, tag |-> tag]
ThinkStartEv(tag) == [type |-> "thinkStart", text |-> <<>>, tag |-> tag]
ThinkEndEv(tag) == [type |-> "thinkEnd", text |-> <<>>, tag |-> tag]

emitText(p, s) == IF s # <<>> THEN [p EXCEPT !.events = @ \o <<TextEv(s)>>] ELSE p

emitThink(p, s) ==
    IF s # <<>>
    THEN [p EXCEPT !.events = @ \o <<ThinkEv(s,
              IF p.currentThinkTag # <<>> THEN p.currentThinkTag ELSE THINK_TAGS[1])>>]
    ELSE p

\* Mutation of StepText: with no marker in sight the retained tail starts one
\* character late, so that character is neither emitted nor kept.
StepText_TailStartsLate(p) ==
    LET lowerBuffer == ToLowerCase(p.buffer)
        hit == findNextTagIndex(lowerBuffer)
    IN IF hit = NoHit
       THEN LET keepLength == Max(1, maxStartTagLength - 1)
            IN IF Len(p.buffer) > keepLength
               THEN [p |-> [emitText(p, Slice(p.buffer, 0, Len(p.buffer) - keepLength))
                              EXCEPT !.buffer = SliceFrom(p.buffer, Len(p.buffer) - keepLength + 1)],
                     again |-> FALSE]
               ELSE [p |-> p, again |-> FALSE]
       ELSE LET p1 == IF hit.index > 0
                      THEN [emitText(p, Slice(p.buffer, 0, hit.index))
                              EXCEPT !.buffer = SliceFrom(p.buffer, hit.index)]
                      ELSE p
                lowerHead == ToLowerCase(p1.buffer)
            IN IF StartsWith(lowerHead, hit.tag)
               THEN IF hit.tag = toolCallStartLower
                    THEN [p |-> [p1 EXCEPT !.mode = "tool_call",
                                           !.buffer = SliceFrom(p1.buffer, Len(TOOL_CALL_START_TAG))],
                          again |-> TRUE]
                    ELSE LET tagName == SubSeq(hit.tag, 2, Len(hit.tag) - 1)
                             k == CHOOSE j \in 1..Len(startTagsLower) : startTagsLower[j] = hit.tag
                         IN [p |-> [p1 EXCEPT !.currentThinkTag = tagName,
                                              !.mode = "think",
                                              !.events = @ \o <<ThinkStartEv(tagName)>>,
                                              !.buffer = SliceFrom(p1.buffer, Len(startTags[k]))],
                             again |-> TRUE]
               ELSE [p |-> [emitText(p1, Slice(p1.buffer, 0, 1))
                              EXCEPT !.buffer = SliceFrom(p1.buffer, 1)],
                     again |-> TRUE]

\* One iteration of the while loop in text mode (agent.ts:162-200).
\* The result carries `again`: FALSE after `break`, TRUE after `continue`.
StepText(p) ==
    LET lowerBuffer == ToLowerCase(p.buffer)
        hit == findNextTagIndex(lowerBuffer)
    IN IF hit = NoHit
       THEN LET keepLength == Max(1, maxStartTagLength - 1)
            IN IF Len(p.buffer) > keepLength
               THEN [p |-> [emitText(p, Slice(p.buffer, 0, Len(p.buffer) - keepLength))
                              EXCEPT !.buffer = SliceFrom(p.buffer, Len(p.buffer) - keepLength)],
                     again |-> FALSE]
               ELSE [p |-> p, again |-> FALSE]
       ELSE LET p1 == IF hit.index > 0
                      THEN [emitText(p, Slice(p.buffer, 0, hit.index))
                              EXCEPT !.buffer = SliceFrom(p.buffer, hit.index)]
                      ELSE p
                lowerHead == ToLowerCase(p1.buffer)
            IN IF StartsWith(lowerHead, hit.tag)
               THEN IF hit.tag = toolCallStartLower
                    THEN [p |-> [p1 EXCEPT !.mode = "tool_call",
                                           !.buffer = SliceFrom(p1.buffer, Len(TOOL_CALL_START_TAG))],
                          again |-> TRUE]
                    ELSE LET tagName == SubSeq(hit.tag, 2, Len(hit.tag) - 1)
                             k == CHOOSE j \in 1..Len(startTagsLower) : startTagsLower[j] = hit.tag
                         IN [p |-> [p1 EXCEPT !.currentThinkTag = tagName,
                                              !.mode = "think",
                                              !.events = @ \o <<ThinkStartEv(tagName)>>,
                                              !.buffer = SliceFrom(p1.buffer, Len(startTags[k]))],
                             again |-> TRUE]
               ELSE [p |-> [emitText(p1, Slice(p1.buffer, 0, 1))
                              EXCEPT !.buffer = SliceFrom(p1.buffer, 1)],
                     again |-> TRUE]

\* Mutation of StepThink: the close marker ends the block but stays in the
\* buffer with the text in front of it.
StepThink_KeepsBuffer(p) ==
    LET endTag == <<"<", "/">> \o p.currentThinkTag \o <<">">>
        lowerBuffer == ToLowerCase(p.buffer)
        endIndex == IndexOf(lowerBuffer, endTag)
    IN IF endIndex = -1
       THEN LET keepLength == Max(1, Len(endTag) - 1)
            IN IF Len(p.buffer) > keepLength
               THEN [p |-> [emitThink(p, Slice(p.buffer, 0, Len(p.buffer) - keepLength))
                              EXCEPT !.buffer = SliceFrom(p.buffer, Len(p.buffer) - keepLength)],
                     again |-> FALSE]
               ELSE [p |-> p, again |-> FALSE]
       ELSE [p |-> [p EXCEPT !.mode = "text",
                             !.events = @ \o <<ThinkEndEv(p.currentThinkTag)>>,
                             !.currentThinkTag = <<>>],
             again |-> TRUE]

\* Mutation of StepThink: the block is ended by the close marker of a
\* tool-call block instead of its own.
StepThink_ForeignClose(p) ==
    LET endTag == toolCallEndLower
        lowerBuffer == ToLowerCase(p.buffer)
        endIndex == IndexOf(lowerBuffer, endTag)
    IN IF endIndex = -1
       THEN LET keepLength == Max(1, Len(endTag) - 1)
            IN IF Len(p.buffer) > keepLength
               THEN [p |-> [emitThink(p, Slice(p.buffer, 0, Len(p.buffer) - keepLength))
                              EXCEPT !.buffer = SliceFrom(p.buffer, Len(p.buffer) - keepLength)],
                     again |-> FALSE]
               ELSE [p |-> p, again |-> FALSE]
       ELSE LET p1 == IF endIndex > 0 THEN emitThink(p, Slice(p.buffer, 0, endIndex)) ELSE p
            IN [p |-> [p1 EXCEPT !.buffer = SliceFrom(p.buffer, endIndex + Len(endTag)),
                                 !.mode = "text",
                                 !.events = @ \o <<ThinkEndEv(p.currentThinkTag)>>,
                                 !.currentThinkTag = <<>>],
                again |-> TRUE]

\* One iteration in think mode (agent.ts:202-224).
StepThink(p) ==
    LET endTag == <<"<", "/">> \o p.currentThinkTag \o <<">">>
        lowerBuffer == ToLowerCase(p.buffer)
        endIndex == IndexOf(lowerBuffer, endTag)
    IN IF endIndex = -1
       THEN LET keepLength == Max(1, Len(endTag) - 1)
            IN IF Len(p.buffer) > keepLength
               THEN [p |-> [emitThink(p, Slice(p.buffer, 0, Len(p.buffer) - keepLength))
                              EXCEPT !.buffer = SliceFrom(p.buffer, Len(p.buffer) - keepLength)],
                     again |-> FALSE]
               ELSE [p |-> p, again |-> FALSE]
       ELSE LET p1 == IF endIndex > 0 THEN emitThink(p, Slice(p.buffer, 0, endIndex)) ELSE p
            IN [p |-> [p1 EXCEPT !.buffer = SliceFrom(p.buffer, endIndex + Len(endTag)),
                                 !.mode = "text",
                                 !.events = @ \o <<ThinkEndEv(p.currentThinkTag)>>,
                                 !.currentThinkTag = <<>>],
                again |-> TRUE]

\* Mutation of StepToolCall: the text in front of the retained tail is
\* emitted as content instead of being dropped.
StepToolCall_EmitsDropped(p) ==
    LET lowerBuffer == ToLowerCase(p.buffer)
        endIndex == IndexOf(lowerBuffer, toolCallEndLower)
    IN IF endIndex = -1
       THEN LET keepLength == Max(1, Len(TOOL_CALL_END_TAG) - 1)
            IN IF Len(p.buffer) > keepLength
               THEN [p |-> [emitText(p, Slice(p.buffer, 0, Len(p.buffer) - keepLength))
                              EXCEPT !.buffer = SliceFrom(p.buffer, Len(p.buffer) - keepLength)],
                     again |-> FALSE]
               ELSE [p |-> p, again |-> FALSE]
       ELSE [p |-> [p EXCEPT !.buffer = SliceFrom(p.buffer, endIndex + Len(TOOL_CALL_END_TAG)),
                             !.mode = "text"],
             again |-> TRUE]

\* One iteration in tool_call mode (agent.ts:226-240).
StepToolCall(p) ==
    LET lowerBuffer == ToLowerCase(p.buffer)
        endIndex == IndexOf(lowerBuffer, toolCallEndLower)
    IN IF endIndex = -1
       THEN LET keepLength == Max(1, Len(TOOL_CALL_END_TAG) - 1)
            IN IF Len(p.buffer) > keepLength
               THEN [p |-> [p EXCEPT !.buffer = SliceFrom(p.buffer, Len(p.buffer) - keepLength)],
                     again |-> FALSE]
               ELSE [p |-> p, again |-> FALSE]
       ELSE [p |-> [p EXCEPT !.buffer = SliceFrom(p.buffer, endIndex + Len(TOOL_CALL_END_TAG)),
                             !.mode = "text"],
             again |-> TRUE]

StepMode(p) ==
    IF p.mode = "text" THEN StepText(p)
    ELSE IF p.mode = "think" THEN StepThink(p)
    ELSE StepToolCall(p)

\* while (buffer && safety < 10000) { safety += 1; ... } (agent.ts:158-242)
RECURSIVE processLoop(_, _)
processLoop(p, safety) ==
    IF p.buffer = <<>> \/ safety >= SafetyLimit THEN p
    ELSE LET r == StepMode(p)
         IN IF r.again THEN processLoop(r.p, safety + 1) ELSE r.p

processBuffer(p) == processLoop(p, 0)

\* push(text) (agent.ts:245-249)
push(p, chunk) ==
    IF chunk = <<>> THEN p
    ELSE processBuffer([p EXCEPT !.buffer = @ \o chunk])

\* Mutation of flush: the residue of an unfinished tool-call block is
\* emitted as content.
flush_EmitsToolCallResidue(p) ==
    IF p.buffer = <<>> THEN p
    ELSE LET p1 == IF p.mode = "think" THEN emitThink(p, p.buffer)
                   ELSE emitText(p, p.buffer)
         IN [p1 EXCEPT !.buffer = <<>>]

\* flush() (agent.ts:250-258)
flush(p) ==
    IF p.buffer = <<>> THEN p
    ELSE LET p1 == IF p.mode = "text" THEN emitText(p, p.buffer)
                   ELSE IF p.mode = "think" THEN emitThink(p, p.buffer)
                   ELSE p
         IN [p1 EXCEPT !.buffer = <<>>]

NewParser == [buffer |-> <<>>, mode |-> "text", currentThinkTag |-> <<>>, events |-> <<>>]

\* What the onText / onThink handlers received, concatenated per channel.
RECURSIVE ChannelText(_, _)
ChannelText(events, type) ==
    IF events = <<>> THEN <<>>
    ELSE (IF Head(events).type = type THEN Head(events).text ELSE <<>>)
         \o ChannelText(Tail(events), type)

\* The same text given to a fresh parser in one push, then flushed.
SinglePush(s) == flush(push(NewParser, s))

(***************************************************************************)
(* Model inputs: a response text is a concatenation of up to MaxTokens     *)
(* pieces; the completion stream delivers it in arbitrary chunks.          *)
(***************************************************************************)
MaxTokens == 3

Filler == <<"x","x","x","x","x","x","x","x","x","x","x","x">>

Tokens == {
    <<"<">>,
    <<"U0130">>,
    Filler,
    <<"<","T","h","i","n","k",">">>,
    <<"<","/","t","h","i","n","k",">">>,
    TOOL_CALL_START_TAG,
    TOOL_CALL_END_TAG }

RECURSIVE TextsOf(_)
TextsOf(n) ==
    IF n = 0 THEN {<<>>}
    ELSE LET shorter == TextsOf(n - 1)
         IN shorter \cup {s \o t : s \in shorter, t \in Tokens}

Texts == TextsOf(MaxTokens)

(***************************************************************************)
(* The session log left untouched while the parser specification runs, and *)
(* the parser left untouched while the log specification runs.             *)
(***************************************************************************)
\* No checkout has succeeded yet.
NoCheckout == [seq |-> 0, role |-> "none"]

LogInit ==
    /\ nodes = <<>>
    /\ tags = {}
    /\ checkouts = <<>>
    /\ pendingSystemNotes = <<>>
    /\ activeAnchorNodeId = NULL
    /\ bootstrapped = FALSE
    /\ appended = 0
    /\ lastCheckout = NoCheckout

\* The registry Map is empty when the module is loaded (sessionLog.ts:318) and
\* no caller holds a log yet.
RegistryInit ==
    /\ sessionLogs = <<>>
    /\ logsCreated = 0
    /\ held = 0

\* No agent has been constructed.
Agents == {1, 2}
NoPair == [sessionId |-> <<>>, conversationId |-> <<>>]

NoAgents ==
    /\ sessionOf = [x \in Agents |-> NoPair]
    /\ logOf = [x \in Agents |-> 0]
    /\ logStore = <<>>

\* No response is being assembled.
StreamIdle ==
    /\ accumulatedContent = <<>>
    /\ hasToolCalls = FALSE
    /\ toolCalls = <<>>
    /\ partialContent = <<>>
    /\ activeTextIndex = -1
    /\ activeThinkingIndex = -1
    /\ streamEvents = <<>>

\* No executeStream call is running and none has run.
TurnIdle ==
    /\ turnPhase = "idle"
    /\ historyForPrompt = <<>>
    /\ systemNotes = <<>>
    /\ turnStart = 0
    /\ streamed = FALSE
    /\ finalRawContent = <<>>
    /\ outcome = "none"

ParserOf(b, m, t) == [buffer |-> b, mode |-> m, currentThinkTag |-> t, events |-> <<>>]

ParserInit ==
    /\ buffer = <<>>
    /\ mode = "text"
    /\ currentThinkTag = <<>>
    /\ text \in Texts
    /\ input = text
    /\ phase = "streaming"
    /\ contentOut = <<>>
    /\ thinkOut = <<>>

\* The parser state after a call, with what its handlers received appended
\* to the per-channel totals.
ParserResult(p) ==
    /\ buffer' = p.buffer
    /\ mode' = p.mode
    /\ currentThinkTag' = p.currentThinkTag
    /\ contentOut' = contentOut \o ChannelText(p.events, "text")
    /\ thinkOut' = thinkOut \o ChannelText(p.events, "think")

\* for await (const chunk of chatStream(...)) { parser.push(chunk.content) }
Push ==
    /\ phase = "streaming"
    /\ \E n \in 0..Len(input) :
        /\ \E p \in {push(ParserOf(buffer, mode, currentThinkTag), SubSeq(input, 1, n))} :
              ParserResult(p)
        /\ input' = SubSeq(input, n + 1, Len(input))
    /\ UNCHANGED <<text, phase, logVars, registryVars, turnVars, streamVars, sessionVars>>

\* parser.flush() once the stream has ended (agent.ts:1064)
Flush ==
    /\ input = <<>>
    /\ \E p \in {flush(ParserOf(buffer, mode, currentThinkTag))} : ParserResult(p)
    /\ phase' = "flushed"
    /\ UNCHANGED <<text, input, logVars, registryVars, turnVars, streamVars, sessionVars>>

ParserNext ==
    \/ Push
    \/ Flush

InitParser == ParserInit /\ LogInit /\ RegistryInit /\ TurnIdle /\ StreamIdle /\ NoAgents

SpecParser == InitParser /\ [][ParserNext]_vars

(***************************************************************************)
(* AgentSessionLog (sessionLog.ts:65-316)                                  *)
(*                                                                         *)
(* A log is L = [nodes, tags, checkouts, pendingSystemNotes,               *)
(* activeAnchorNodeId, bootstrapped, appended].  nodes is the array of     *)
(* SessionLogNode [id, role, content, tags, seq]; tags is the Map          *)
(* tag -> node id as a set of [tag, nodeId] entries with distinct tags;    *)
(* checkouts is the array of CheckoutRecord [fromNodeId, toNodeId,         *)
(* summary].  seq is the ordinal of the append that created the node and   *)
(* appended counts those appends.  The id and createdAt of a               *)
(* CheckoutRecord and the createdAt of a node are read by no operation and *)
(* are left out.                                                           *)
(***************************************************************************)
MaxNodes == 3
MaxCheckouts == 1
MaxAppends == 4
MAX_PENDING_SYSTEM_NOTES == 8
TagMaxLen == 64
SummaryMaxLen == 800

\* constructor(key, maxNodes = 320, maxCheckouts = 64): the model's log is
\* built with the small capacities above, as the test suite does.
maxNodes == MaxNodes
maxCheckouts == MaxCheckouts

Whitespace == {" ", "\t", "\n"}

\* String.prototype.trim
RECURSIVE TrimStart(_)
TrimStart(s) == IF s # <<>> /\ Head(s) \in Whitespace THEN TrimStart(Tail(s)) ELSE s

RECURSIVE TrimEnd(_)
TrimEnd(s) ==
    IF s # <<>> /\ s[Len(s)] \in Whitespace THEN TrimEnd(SubSeq(s, 1, Len(s) - 1)) ELSE s

Trim(s) == TrimEnd(TrimStart(s))

\* replace(/\s+/g, '_'): every maximal run of whitespace becomes one "_".
RECURSIVE CollapseWhitespace(_)
CollapseWhitespace(s) ==
    IF s = <<>> THEN <<>>
    ELSE IF Head(s) \in Whitespace THEN <<"_">> \o CollapseWhitespace(TrimStart(s))
    ELSE <<Head(s)>> \o CollapseWhitespace(Tail(s))

\* normalizeTag (sessionLog.ts:54-56)
normalizeTag(tag) == Slice(CollapseWhitespace(Trim(tag)), 0, TagMaxLen)

\* `ctx_${randomUUID()}` for the n-th node of a log: the literal prefix, the
\* first character of the random part and the rest of it, which is what makes
\* the id unique.  The model lets the first character alternate between two
\* values, so that ids share prefixes without all sharing the same one.
IdChars == {"a", "b"}
Serials == <<"1", "2", "3", "4", "5", "6", "7", "8", "9", "10", "11", "12">>
NewId(n) == <<"ctx_", IF n % 2 = 1 THEN "a" ELSE "b", Serials[n]>>

NewLog == [nodes |-> <<>>, tags |-> {}, checkouts |-> <<>>, pendingSystemNotes |-> <<>>,
           activeAnchorNodeId |-> NULL, bootstrapped |-> FALSE, appended |-> 0]

NodeIds(ns) == {ns[i].id : i \in 1..Len(ns)}

\* Array.prototype.find / findIndex: the least of the 1-based indices that
\* satisfy the test, 0 when there is none.
FirstIndex(hits) == IF hits = {} THEN 0 ELSE CHOOSE i \in hits : \A j \in hits : i <= j

\* Mutation of pruneTags: eviction leaves the tag index alone.
pruneTags_Keep(tagMap, removedIds) == tagMap

\* for (const [tag, nodeId] of this.tags.entries()) if (removedIds.has(nodeId)) delete
pruneTags(tagMap, removedIds) == {e \in tagMap : e.nodeId \notin removedIds}

\* Mutation of pruneCheckouts: only the fromNodeId of a record is looked up
\* in the evicted ids.
pruneCheckouts_FromOnly(records, removedIds) ==
    LET Keep(c) == ~(IF c.fromNodeId # NULL THEN c.fromNodeId \in removedIds ELSE FALSE)
    IN SelectSeq(records, Keep)

\* the backwards loop over this.checkouts (sessionLog.ts:305-310)
pruneCheckouts(records, removedIds) ==
    LET Keep(c) == ~(c.toNodeId \in removedIds
                     \/ (IF c.fromNodeId # NULL THEN c.fromNodeId \in removedIds ELSE FALSE))
    IN SelectSeq(records, Keep)

\* Mutation of rehomeAnchor: eviction leaves the anchor alone.
rehomeAnchor_Keep(anchor, remaining, removedIds) == anchor

\* Mutation of rehomeAnchor: the anchor moves to the oldest remaining node,
\* whatever its role.
rehomeAnchor_AnyRole(anchor, remaining, removedIds) ==
    IF anchor # NULL /\ anchor \in removedIds
    THEN IF remaining = <<>> THEN NULL ELSE remaining[1].id
    ELSE anchor

\* sessionLog.ts:312-314, with `remaining` the nodes left after the splice
rehomeAnchor(anchor, remaining, removedIds) ==
    IF anchor # NULL /\ anchor \in removedIds
    THEN LET i == FirstIndex({k \in 1..Len(remaining) :
                                  remaining[k].role = "user" \/ remaining[k].role = "assistant"})
         IN IF i = 0 THEN NULL ELSE remaining[i].id
    ELSE anchor

\* Mutation of removeCount: the overflow test is off by one.
removeCount_OffByOne(len) == IF len <= maxNodes + 1 THEN 0 ELSE len - maxNodes

\* how many nodes the splice removes (sessionLog.ts:292-294)
removeCount(len) == IF len <= maxNodes THEN 0 ELSE len - maxNodes

\* Mutation of pruneOverflow: the splice removes the newest nodes.
pruneOverflow_DropsNewest(L) ==
    LET count == Min(removeCount(Len(L.nodes)), Len(L.nodes))
    IN IF count = 0 THEN L
       ELSE LET removed == SubSeq(L.nodes, Len(L.nodes) - count + 1, Len(L.nodes))
                remaining == SubSeq(L.nodes, 1, Len(L.nodes) - count)
                removedIds == NodeIds(removed)
            IN [L EXCEPT !.nodes = remaining,
                         !.tags = pruneTags(L.tags, removedIds),
                         !.checkouts = pruneCheckouts(L.checkouts, removedIds),
                         !.activeAnchorNodeId =
                             rehomeAnchor(L.activeAnchorNodeId, remaining, removedIds)]

\* pruneOverflow (sessionLog.ts:291-315)
pruneOverflow(L) ==
    LET count == Min(removeCount(Len(L.nodes)), Len(L.nodes))
    IN IF count = 0 THEN L
       ELSE LET removed == SubSeq(L.nodes, 1, count)
                remaining == SubSeq(L.nodes, count + 1, Len(L.nodes))
                removedIds == NodeIds(removed)
            IN [L EXCEPT !.nodes = remaining,
                         !.tags = pruneTags(L.tags, removedIds),
                         !.checkouts = pruneCheckouts(L.checkouts, removedIds),
                         !.activeAnchorNodeId =
                             rehomeAnchor(L.activeAnchorNodeId, remaining, removedIds)]

\* Mutation of append: the content is tested and stored as it was given,
\* without the trim.
append_Untrimmed(L, role, content) ==
    IF content = <<>> THEN L
    ELSE LET node == [id |-> NewId(L.appended + 1), role |-> role,
                      content |-> content, tags |-> <<>>, seq |-> L.appended + 1]
         IN pruneOverflow([L EXCEPT !.nodes = Append(@, node),
                                    !.appended = @ + 1])

\* Mutation of append: the new node is put in front of the others.
append_AtFront(L, role, content) ==
    LET normalized == Trim(content)
    IN IF normalized = <<>> THEN L
       ELSE LET node == [id |-> NewId(L.appended + 1), role |-> role,
                         content |-> normalized, tags |-> <<>>, seq |-> L.appended + 1]
            IN pruneOverflow([L EXCEPT !.nodes = <<node>> \o @,
                                       !.appended = @ + 1])

\* append (sessionLog.ts:95-110): the log afterwards.  What append returns is
\* null when the log is unchanged and the new node otherwise.
append(L, role, content) ==
    LET normalized == Trim(content)
    IN IF normalized = <<>> THEN L
       ELSE LET node == [id |-> NewId(L.appended + 1), role |-> role,
                         content |-> normalized, tags |-> <<>>, seq |-> L.appended + 1]
            IN pruneOverflow([L EXCEPT !.nodes = Append(@, node),
                                       !.appended = @ + 1])

\* bootstrapFromHistoryIfEmpty (sessionLog.ts:82-93)
RECURSIVE appendHistory(_, _, _)
appendHistory(L, historyMessages, i) ==
    IF i > Len(historyMessages) THEN L
    ELSE LET message == historyMessages[i]
         IN appendHistory(
                IF message.role # "user" /\ message.role # "assistant" THEN L
                ELSE append(L, message.role, message.content),
                historyMessages, i + 1)

\* Mutation of bootstrapFromHistoryIfEmpty: the guard tests emptiness only,
\* not the bootstrapped flag.
bootstrapFromHistoryIfEmpty_EmptinessOnly(L, historyMessages) ==
    IF Len(L.nodes) > 0 \/ Len(historyMessages) = 0
    THEN [L EXCEPT !.bootstrapped = TRUE]
    ELSE [appendHistory(L, historyMessages, 1) EXCEPT !.bootstrapped = TRUE]

bootstrapFromHistoryIfEmpty(L, historyMessages) ==
    IF L.bootstrapped \/ Len(L.nodes) > 0 \/ Len(historyMessages) = 0
    THEN [L EXCEPT !.bootstrapped = TRUE]
    ELSE [appendHistory(L, historyMessages, 1) EXCEPT !.bootstrapped = TRUE]

\* Mutation of getHeadNode: the oldest node instead of the last-appended one.
getHeadNode_Oldest(L) == Min(1, Len(L.nodes))

\* getHeadNode (sessionLog.ts:260-263) as an index into nodes, 0 for undefined
getHeadNode(L) == Len(L.nodes)

\* this.tags.get(ref): the node id, or NULL for undefined
TagsGet(tagMap, ref) ==
    IF \E e \in tagMap : e.tag = ref THEN (CHOOSE e \in tagMap : e.tag = ref).nodeId ELSE NULL

\* this.tags.set(tag, nodeId)
TagsSet(tagMap, tag, nodeId) ==
    {e \in tagMap : e.tag # tag} \cup {[tag |-> tag, nodeId |-> nodeId]}

\* Mutation of resolveTargetNode: a reference that matches nothing falls
\* back to the head node.
resolveTargetNode_HeadFallback(L, targetRef) ==
    IF Trim(targetRef) = <<>> THEN getHeadNode(L)
    ELSE LET ref == Trim(targetRef)
             tagNodeId == TagsGet(L.tags, ref)
             taggedNode == IF tagNodeId # NULL
                           THEN FirstIndex({k \in 1..Len(L.nodes) : L.nodes[k].id = tagNodeId})
                           ELSE 0
             found == FirstIndex({k \in 1..Len(L.nodes) :
                                    L.nodes[k].id = ref \/ StartsWith(L.nodes[k].id, ref)})
         IN IF taggedNode # 0 THEN taggedNode
            ELSE IF found # 0 THEN found
            ELSE getHeadNode(L)

\* Mutation of resolveTargetNode: the nodes are searched by id before the
\* tag index is consulted.
resolveTargetNode_IdFirst(L, targetRef) ==
    IF Trim(targetRef) = <<>> THEN getHeadNode(L)
    ELSE LET ref == Trim(targetRef)
             tagNodeId == TagsGet(L.tags, ref)
             taggedNode == IF tagNodeId # NULL
                           THEN FirstIndex({k \in 1..Len(L.nodes) : L.nodes[k].id = tagNodeId})
                           ELSE 0
             found == FirstIndex({k \in 1..Len(L.nodes) :
                                    L.nodes[k].id = ref \/ StartsWith(L.nodes[k].id, ref)})
         IN IF found # 0 THEN found ELSE taggedNode

\* resolveTargetNode (sessionLog.ts:265-278) as an index into nodes, 0 for
\* undefined; an omitted targetRef is the empty string.
resolveTargetNode(L, targetRef) ==
    IF Trim(targetRef) = <<>> THEN getHeadNode(L)
    ELSE LET ref == Trim(targetRef)
             tagNodeId == TagsGet(L.tags, ref)
             taggedNode == IF tagNodeId # NULL
                           THEN FirstIndex({k \in 1..Len(L.nodes) : L.nodes[k].id = tagNodeId})
                           ELSE 0
         IN IF taggedNode # 0 THEN taggedNode
            ELSE FirstIndex({k \in 1..Len(L.nodes) :
                                L.nodes[k].id = ref \/ StartsWith(L.nodes[k].id, ref)})

\* target.tags.includes(tag)
Includes(seq, e) == \E i \in 1..Len(seq) : seq[i] = e

\* Mutation of addNodeTag: the tag is pushed without the includes test.
addNodeTag_Always(nodeTags, normalizedTag) == Append(nodeTags, normalizedTag)

\* if (!target.tags.includes(normalizedTag)) target.tags.push(normalizedTag)
addNodeTag(nodeTags, normalizedTag) ==
    IF ~Includes(nodeTags, normalizedTag) THEN Append(nodeTags, normalizedTag) ELSE nodeTags

Failure == [success |-> FALSE, nodeId |-> NULL, fromNodeId |-> NULL]

\* tag (sessionLog.ts:140-162); an omitted note is the empty string.
\* The result is [log, result] with result = {success, nodeId}.
tag(L, tagName, targetRef, note) ==
    LET normalizedTag == normalizeTag(tagName)
        target == resolveTargetNode(L, targetRef)
    IN IF normalizedTag = <<>> THEN [log |-> L, result |-> Failure]
       ELSE IF target = 0 THEN [log |-> L, result |-> Failure]
       ELSE LET targetId == L.nodes[target].id
                L1 == [L EXCEPT !.nodes[target].tags = addNodeTag(@, normalizedTag),
                                !.tags = TagsSet(@, normalizedTag, targetId)]
                L2 == IF Trim(note) # <<>>
                      THEN append(L1, "note",
                                  <<"Tag ">> \o normalizedTag \o <<": ">> \o Trim(note))
                      ELSE L1
            IN [log |-> L2,
                result |-> [success |-> TRUE, nodeId |-> targetId, fromNodeId |-> NULL]]

\* Mutation of pushCheckout: the splice drops the newest records instead of
\* the oldest.
pushCheckout_KeepOldest(records, record) ==
    LET pushed == Append(records, record)
    IN IF Len(pushed) > maxCheckouts THEN SubSeq(pushed, 1, maxCheckouts) ELSE pushed

\* this.checkouts.push(record) and the splice that keeps the last maxCheckouts
pushCheckout(records, record) ==
    LET pushed == Append(records, record)
    IN IF Len(pushed) > maxCheckouts
       THEN SubSeq(pushed, Len(pushed) - maxCheckouts + 1, Len(pushed))
       ELSE pushed

\* Mutation of pushPendingNote: the splice drops the newest notes instead
\* of the oldest.
pushPendingNote_KeepOldest(notes, note) ==
    LET pushed == Append(notes, note)
    IN IF Len(pushed) > MAX_PENDING_SYSTEM_NOTES
       THEN SubSeq(pushed, 1, MAX_PENDING_SYSTEM_NOTES)
       ELSE pushed

\* this.pendingSystemNotes.push(note) and the splice that keeps the last 8
pushPendingNote(notes, note) ==
    LET pushed == Append(notes, note)
    IN IF Len(pushed) > MAX_PENDING_SYSTEM_NOTES
       THEN SubSeq(pushed, Len(pushed) - MAX_PENDING_SYSTEM_NOTES + 1, Len(pushed))
       ELSE pushed

CheckoutNote(targetId, compactSummary) ==
    <<"Context checkout applied. Anchor node: ">> \o targetId
        \o <<". Summary of previous branch: ">> \o compactSummary

\* checkout (sessionLog.ts:164-211).
\* The result is [log, result] with result = {success, fromNodeId, toNodeId}
\* (toNodeId in the field nodeId).
checkout(L, targetRef, summary) ==
    LET target == resolveTargetNode(L, targetRef)
        compactSummary == Slice(Trim(summary), 0, SummaryMaxLen)
    IN IF target = 0 THEN [log |-> L, result |-> Failure]
       ELSE IF compactSummary = <<>> THEN [log |-> L, result |-> Failure]
       ELSE LET targetId == L.nodes[target].id
                fromNode == getHeadNode(L)
                fromNodeId == IF fromNode # 0 THEN L.nodes[fromNode].id ELSE NULL
                record == [fromNodeId |-> fromNodeId, toNodeId |-> targetId,
                           summary |-> compactSummary]
                L1 == [L EXCEPT !.checkouts = pushCheckout(@, record),
                                !.activeAnchorNodeId = targetId,
                                !.pendingSystemNotes =
                                    pushPendingNote(@, CheckoutNote(targetId, compactSummary))]
                L2 == append(L1, "note",
                             <<"Checkout to ">> \o targetId \o <<": ">> \o compactSummary)
            IN [log |-> L2,
                result |-> [success |-> TRUE, nodeId |-> targetId, fromNodeId |-> fromNodeId]]

\* Mutation of scopedNodes: the active anchor is not applied.
scopedNodes_NoAnchor(L, limit) ==
    LET IsConversation(n) == n.role = "user" \/ n.role = "assistant"
        conversationNodes == SelectSeq(L.nodes, IsConversation)
    IN IF limit > 0 /\ Len(conversationNodes) > limit
       THEN SubSeq(conversationNodes, Len(conversationNodes) - limit + 1,
                   Len(conversationNodes))
       ELSE conversationNodes

\* Mutation of scopedNodes: the limit keeps the oldest entries, slice(0, limit)
\* instead of slice(-limit).
scopedNodes_KeepsOldest(L, limit) ==
    LET IsConversation(n) == n.role = "user" \/ n.role = "assistant"
        conversationNodes == SelectSeq(L.nodes, IsConversation)
        anchorIndex == IF L.activeAnchorNodeId # NULL
                       THEN FirstIndex({k \in 1..Len(conversationNodes) :
                                conversationNodes[k].id = L.activeAnchorNodeId})
                       ELSE 0
        scoped == IF anchorIndex >= 1
                  THEN SubSeq(conversationNodes, anchorIndex, Len(conversationNodes))
                  ELSE conversationNodes
    IN IF limit > 0 /\ Len(scoped) > limit
       THEN SubSeq(scoped, 1, limit)
       ELSE scoped

\* The nodes getPromptHistory keeps (sessionLog.ts:113-125).
scopedNodes(L, limit) ==
    LET IsConversation(n) == n.role = "user" \/ n.role = "assistant"
        conversationNodes == SelectSeq(L.nodes, IsConversation)
        anchorIndex == IF L.activeAnchorNodeId # NULL
                       THEN FirstIndex({k \in 1..Len(conversationNodes) :
                                conversationNodes[k].id = L.activeAnchorNodeId})
                       ELSE 0
        scoped == IF anchorIndex >= 1
                  THEN SubSeq(conversationNodes, anchorIndex, Len(conversationNodes))
                  ELSE conversationNodes
    IN IF limit > 0 /\ Len(scoped) > limit
       THEN SubSeq(scoped, Len(scoped) - limit + 1, Len(scoped))
       ELSE scoped

\* getPromptHistory (sessionLog.ts:112-131)
getPromptHistory(L, limit) ==
    LET scoped == scopedNodes(L, limit)
    IN [i \in 1..Len(scoped) |->
            [role |-> IF scoped[i].role = "user" THEN "user" ELSE "assistant",
             content |-> scoped[i].content]]

\* Mutation of consumePendingSystemNotes: the notes are returned and the
\* queue is not cleared.
consumePendingSystemNotes_NoClear(L) == [log |-> L, notes |-> L.pendingSystemNotes]

\* consumePendingSystemNotes (sessionLog.ts:133-138): [log, notes], the log
\* afterwards and the notes returned.
consumePendingSystemNotes(L) ==
    IF Len(L.pendingSystemNotes) = 0 THEN [log |-> L, notes |-> <<>>]
    ELSE [log |-> [L EXCEPT !.pendingSystemNotes = <<>>], notes |-> L.pendingSystemNotes]

\* getSegmentSize (sessionLog.ts:280-289): the nodes after the last node
\* whose tags array is not empty.
getSegmentSize(L) ==
    IF Len(L.nodes) = 0 THEN 0
    ELSE LET tagged == {i \in 1..Len(L.nodes) : Len(L.nodes[i].tags) > 0}
         IN IF tagged = {} THEN Len(L.nodes)
            ELSE Len(L.nodes) - (CHOOSE i \in tagged : \A j \in tagged : j <= i)

(***************************************************************************)
(* The session log driven by its callers: one action per public operation. *)
(* lastCheckout remembers the target node of the last successful checkout. *)
(***************************************************************************)
ContentInputs == {<<" ">>, <<" ", "x", " ">>}
TagInputs == {<<" ">>, <<" ", "u", " ", " ", "v">>}
NoteInputs == {<<>>, <<" ", "n">>}
SummaryInputs == {<<" ">>, <<" ", "s", " ">>}
\* Roles of direct appends.  The log tells roles apart only as conversation
\* (user, assistant) or not (tool, note): assistant nodes come from the
\* bootstrap history, and the nodes that are not conversation from the notes
\* of tag and checkout.
AppendRoles == {"user"}

Message(role, content) == [role |-> role, content |-> content]

\* Prior-turn histories handed to the bootstrap: none, and some that mix
\* user, assistant and system messages and blank content.
HistoryInputs == {
    <<>>,
    <<Message("user", <<" ", "x", " ">>)>>,
    <<Message("system", <<" ", "x", " ">>), Message("assistant", <<" ", "x", " ">>)>>,
    <<Message("user", <<" ", "x", " ">>), Message("assistant", <<" ">>),
      Message("assistant", <<" ", "x", " ">>)>> }

\* References a caller can pass: blank, a tag name (normalized or as it was
\* typed), an id up to its first random character, or the whole id of a live
\* node.
RefInputs ==
    {<<" ">>, <<"u", "_", "v">>, <<"u", " ", " ", "v">>}
        \cup {<<"ctx_", x>> : x \in IdChars}
        \cup NodeIds(nodes)

Log == [nodes |-> nodes, tags |-> tags, checkouts |-> checkouts,
        pendingSystemNotes |-> pendingSystemNotes,
        activeAnchorNodeId |-> activeAnchorNodeId,
        bootstrapped |-> bootstrapped, appended |-> appended]

SetLog(L) ==
    /\ nodes' = L.nodes
    /\ tags' = L.tags
    /\ checkouts' = L.checkouts
    /\ pendingSystemNotes' = L.pendingSystemNotes
    /\ activeAnchorNodeId' = L.activeAnchorNodeId
    /\ bootstrapped' = L.bootstrapped
    /\ appended' = L.appended

NodeById(ns, id) == ns[CHOOSE i \in 1..Len(ns) : ns[i].id = id]

Bootstrap ==
    /\ \E h \in HistoryInputs :
        /\ appended + Len(h) <= MaxAppends
        /\ \E L \in {bootstrapFromHistoryIfEmpty(Log, h)} : SetLog(L)
    /\ UNCHANGED <<lastCheckout, parserVars, registryVars, turnVars, streamVars, sessionVars>>

AppendNode ==
    /\ appended < MaxAppends
    /\ \E role \in AppendRoles, content \in ContentInputs :
        \E L \in {append(Log, role, content)} : SetLog(L)
    /\ UNCHANGED <<lastCheckout, parserVars, registryVars, turnVars, streamVars, sessionVars>>

Tag ==
    /\ \E tagName \in TagInputs, targetRef \in RefInputs, note \in NoteInputs :
        /\ Trim(note) # <<>> => appended < MaxAppends
        /\ \E r \in {tag(Log, tagName, targetRef, note)} : SetLog(r.log)
    /\ UNCHANGED <<lastCheckout, parserVars, registryVars, turnVars, streamVars, sessionVars>>

Checkout ==
    /\ appended < MaxAppends
    /\ \E targetRef \in RefInputs, summary \in SummaryInputs :
        \E r \in {checkout(Log, targetRef, summary)} :
            /\ SetLog(r.log)
            /\ lastCheckout' =
                   IF r.result.success
                   THEN LET t == NodeById(nodes, r.result.nodeId)
                        IN [seq |-> t.seq, role |-> t.role]
                   ELSE lastCheckout
    /\ UNCHANGED <<parserVars, registryVars, turnVars, streamVars, sessionVars>>

ConsumePendingSystemNotes ==
    /\ \E r \in {consumePendingSystemNotes(Log)} : SetLog(r.log)
    /\ UNCHANGED <<lastCheckout, parserVars, registryVars, turnVars, streamVars, sessionVars>>

LogNext ==
    \/ Bootstrap
    \/ AppendNode
    \/ Tag
    \/ Checkout
    \/ ConsumePendingSystemNotes

\* The parser is idle while the log specification runs.
ParserIdle ==
    /\ buffer = <<>>
    /\ mode = "text"
    /\ currentThinkTag = <<>>
    /\ text = <<>>
    /\ input = <<>>
    /\ phase = "streaming"
    /\ contentOut = <<>>
    /\ thinkOut = <<>>

Init == LogInit /\ ParserIdle /\ RegistryInit /\ TurnIdle /\ StreamIdle /\ NoAgents

Spec == Init /\ [][LogNext]_vars

(***************************************************************************)
(* A long session on one log: the context_checkout tool (agent.ts:1243) is *)
(* called again and again, more often than the pending-note queue is long, *)
(* between user messages and turns that drain the queue.  MaxLongAppends   *)
(* bounds the number of nodes appended in such a session.                  *)
(***************************************************************************)
MaxLongAppends == 10

CheckoutAgain ==
    /\ nodes # <<>>
    /\ appended < MaxLongAppends
    /\ \E targetRef \in {<<>>} \cup NodeIds(nodes), summary \in SummaryInputs :
        \E r \in {checkout(Log, targetRef, summary)} :
            /\ SetLog(r.log)
            /\ lastCheckout' =
                   IF r.result.success
                   THEN LET t == NodeById(nodes, r.result.nodeId)
                        IN [seq |-> t.seq, role |-> t.role]
                   ELSE lastCheckout
    /\ UNCHANGED <<parserVars, registryVars, turnVars, streamVars, sessionVars>>

LongSessionNext ==
    \/ AppendNode
    \/ CheckoutAgain
    \/ ConsumePendingSystemNotes

SpecLongSession == Init /\ [][LongSessionNext]_vars

(***************************************************************************)
(* Tag names that look like node ids: the context_tag tool (agent.ts:1213) *)
(* passes the name the model chose, and nothing keeps a name from being    *)
(* the beginning of a node id ("ctx_") or a whole node id.  The tool is    *)
(* called here without a note, between appends.                            *)
(***************************************************************************)
IdLikeTags == {<<"ctx_">>, NewId(1)}

\* Targets of such a call: the head, and a live node by its id.
IdLikeTargets == {<<>>} \cup NodeIds(nodes)

TagIdLike ==
    /\ \E tagName \in IdLikeTags, targetRef \in IdLikeTargets :
        \E r \in {tag(Log, tagName, targetRef, <<>>)} : SetLog(r.log)
    /\ UNCHANGED <<lastCheckout, parserVars, registryVars, turnVars, streamVars, sessionVars>>

TagNamesNext ==
    \/ AppendNode
    \/ TagIdLike

SpecTagNames == Init /\ [][TagNamesNext]_vars

(***************************************************************************)
(* The registry of session logs (sessionLog.ts:318-338)                    *)
(*                                                                         *)
(* sessionLogs is the module-level Map as the sequence of its entries      *)
(* [key, log] in insertion order, which is the order Map.keys() iterates   *)
(* in.  An AgentSessionLog instance is identified by the ordinal of its    *)
(* construction; logsCreated counts the constructions.  A registry value   *)
(* is R = [entries, created].                                              *)
(***************************************************************************)
MAX_SESSION_LOG_INSTANCES == 256

\* `${sessionId}::${conversationId || 'draft'}`: an absent and an empty
\* conversation id are both falsy and both written NULL here.
buildAgentSessionLogKey(sessionId, conversationId) ==
    sessionId \o <<":", ":">> \o (IF conversationId # NULL THEN conversationId ELSE <<"d","r","a","f","t">>)

\* sessionLogs.get(key): the entries under the key, at most one of them.
EntriesAt(entries, key) == {i \in 1..Len(entries) : entries[i].key = key}

\* Variant: evicts one entry more than the overflow.
evictStale_OneMore(entries) ==
    IF Len(entries) > MAX_SESSION_LOG_INSTANCES
    THEN SubSeq(entries, Len(entries) - MAX_SESSION_LOG_INSTANCES + 2, Len(entries))
    ELSE entries

\* Variant: evicts from the end of the iteration order.
evictStale_DropsNewest(entries) ==
    IF Len(entries) > MAX_SESSION_LOG_INSTANCES
    THEN SubSeq(entries, 1, MAX_SESSION_LOG_INSTANCES)
    ELSE entries

\* The stale keys are the first size - MAX keys of the iteration order; each
\* of them is deleted.
evictStale(entries) ==
    IF Len(entries) > MAX_SESSION_LOG_INSTANCES
    THEN SubSeq(entries, Len(entries) - MAX_SESSION_LOG_INSTANCES + 1, Len(entries))
    ELSE entries

getAgentSessionLog(R, sessionId, conversationId) ==
    LET key == buildAgentSessionLogKey(sessionId, conversationId)
        existing == EntriesAt(R.entries, key)
    IN IF existing # {}
       THEN [registry |-> R, log |-> R.entries[CHOOSE i \in existing : TRUE].log]
       ELSE LET created == R.created + 1
            IN [registry |-> [entries |-> evictStale(Append(R.entries, [key |-> key, log |-> created])),
                              created |-> created],
                log |-> created]

Registry == [entries |-> sessionLogs, created |-> logsCreated]

(***************************************************************************)
(* The registry driven by agents (agent.ts:541).  One session, S1, is      *)
(* opened again and again without a conversation id and the log it is      *)
(* handed is remembered in held; every other call comes from a session     *)
(* that has not been seen before.  MaxOverflow bounds the number of logs   *)
(* constructed beyond the capacity of the registry.                        *)
(***************************************************************************)
MaxOverflow == 2

S1 == <<"s", "1">>

\* A session id no earlier call has used.
FreshSession == <<"s", ToString(logsCreated + 2)>>

CanCreate == logsCreated < MAX_SESSION_LOG_INSTANCES + MaxOverflow

Missing(sessionId, conversationId) ==
    EntriesAt(sessionLogs, buildAgentSessionLogKey(sessionId, conversationId)) = {}

OpenSession ==
    /\ Missing(S1, NULL) => CanCreate
    /\ \E r \in {getAgentSessionLog(Registry, S1, NULL)} :
           /\ sessionLogs' = r.registry.entries
           /\ logsCreated' = r.registry.created
           /\ held' = r.log
    /\ UNCHANGED <<parserVars, logVars, turnVars, streamVars, sessionVars>>

OpenOtherSession ==
    /\ CanCreate
    /\ \E r \in {getAgentSessionLog(Registry, FreshSession, NULL)} :
           /\ sessionLogs' = r.registry.entries
           /\ logsCreated' = r.registry.created
    /\ UNCHANGED <<held, parserVars, logVars, turnVars, streamVars, sessionVars>>

RegistryNext ==
    \/ OpenSession
    \/ OpenOtherSession

InitRegistry == RegistryInit /\ LogInit /\ ParserIdle /\ TurnIdle /\ StreamIdle /\ NoAgents

SpecRegistry == InitRegistry /\ [][RegistryNext]_vars

(***************************************************************************)
(* Regular-expression helpers of the agent (agent.ts:45-110)               *)
(***************************************************************************)
\* One code unit under the i flag of a regular expression without the u
\* flag: only A-Z and a-z fold together.
FoldChar(c) == IF c \in DOMAIN LowerTable THEN LowerTable[c] ELSE c

\* The lower-case literal matches s at the 0-based index i, whatever the case.
LiteralAt(s, i, literal) ==
    /\ i + Len(literal) <= Len(s)
    /\ \A k \in 1..Len(literal) : FoldChar(s[i + k]) = literal[k]

\* The least index >= from at which the literal matches, -1 when none does.
NextLiteral(s, from, literal) ==
    LET hits == {i \in from..(Len(s) - Len(literal)) : LiteralAt(s, i, literal)}
    IN IF hits = {} THEN -1 ELSE CHOOSE i \in hits : \A j \in hits : i <= j

\* hasToolCallTags (agent.ts:101-103): /<tool_call>/i.test(content)
hasToolCallTags(content) == NextLiteral(content, 0, toolCallStartLower) # -1

\* content.replace(/<tool_call>[\s\S]*?<\/tool_call>/gi, ''): the leftmost
\* start marker that has an end marker after it opens a match, which runs to
\* the first such end marker; the search resumes behind the match.
RECURSIVE removeToolCallBlocks(_)
removeToolCallBlocks(content) ==
    LET i == NextLiteral(content, 0, toolCallStartLower)
        j == IF i = -1 THEN -1
             ELSE NextLiteral(content, i + Len(toolCallStartLower), toolCallEndLower)
    IN IF j = -1 THEN content
       ELSE SubSeq(content, 1, i)
                \o removeToolCallBlocks(SliceFrom(content, j + Len(toolCallEndLower)))

\* Mutation of stripToolCallTags: the blocks are left in the text.
stripToolCallTags_KeepsBlocks(content) == Trim(content)

\* stripToolCallTags (agent.ts:108-110)
stripToolCallTags(content) == Trim(removeToolCallBlocks(content))

thinkOpenLower == [k \in 1..Len(THINK_TAGS) |-> <<"<">> \o THINK_TAGS[k] \o <<">">>]
thinkCloseLower == [k \in 1..Len(THINK_TAGS) |-> <<"<", "/">> \o THINK_TAGS[k] \o <<">">>]

\* The first match of /<(think|...)>([\s\S]*?)<\/\1>/gi in content at or
\* after `from`: [start, end) as 0-based indices, start = -1 when none.  The
\* closing tag is the one named like the opening tag, whatever its case.
firstThinkMatch(content, from) ==
    LET CloseAfter(i, k) == NextLiteral(content, i + Len(thinkOpenLower[k]), thinkCloseLower[k])
        opens == {i \in from..Len(content) :
                     \E k \in 1..Len(THINK_TAGS) :
                         LiteralAt(content, i, thinkOpenLower[k]) /\ CloseAfter(i, k) # -1}
    IN IF opens = {} THEN [start |-> -1, end |-> -1]
       ELSE LET i == CHOOSE x \in opens : \A y \in opens : x <= y
                k == CHOOSE x \in 1..Len(THINK_TAGS) : LiteralAt(content, i, thinkOpenLower[x])
            IN [start |-> i, end |-> CloseAfter(i, k) + Len(thinkCloseLower[k])]

\* String.prototype.replace(pattern, '') with a string pattern: the first
\* occurrence of the pattern is removed.
removeFirst(s, pattern) ==
    LET i == IndexOf(s, pattern)
    IN IF i = -1 THEN s ELSE SubSeq(s, 1, i) \o SliceFrom(s, i + Len(pattern))

\* The loop of extractThinkingContent over the matches of the original
\* content: each match[0] is removed from cleanContent.
RECURSIVE removeThinkMatches(_, _, _)
removeThinkMatches(content, from, cleanContent) ==
    LET m == firstThinkMatch(content, from)
    IN IF m.start = -1 THEN cleanContent
       ELSE removeThinkMatches(content, m.end,
                               removeFirst(cleanContent, Slice(content, m.start, m.end)))

\* extractThinkingContent(content).cleanContent (agent.ts:45-65)
extractCleanContent(content) ==
    IF content = <<>> THEN <<>> ELSE Trim(removeThinkMatches(content, 0, content))

CompactMaxLen == 260

\* replace(/\s+/g, ' '): every maximal run of whitespace becomes one space.
RECURSIVE CollapseToSpace(_)
CollapseToSpace(s) ==
    IF s = <<>> THEN <<>>
    ELSE IF Head(s) \in Whitespace THEN <<" ">> \o CollapseToSpace(TrimStart(s))
    ELSE <<Head(s)>> \o CollapseToSpace(Tail(s))

\* toCompactText (agent.ts:644-659) of a value already turned into text.
toCompactText(valueText) ==
    LET normalized == Trim(CollapseToSpace(valueText))
    IN IF Len(normalized) <= CompactMaxLen THEN normalized
       ELSE Slice(normalized, 0, CompactMaxLen) \o <<".", ".", ".">>

(***************************************************************************)
(* executeStream (agent.ts:1268-1434): the turns of one Agent on its log.  *)
(*                                                                         *)
(* turnPhase is "running" from the user append until executeStream         *)
(* returns or throws.  historyForPrompt and systemNotes are what the model *)
(* was given for the turn (replaceMessages, setSystemPrompt), turnStart is *)
(* the number of appends made before the turn's own, streamed whether a    *)
(* text delta has been forwarded, finalRawContent the text of the final    *)
(* assistant message as the last completed turn read it, and outcome how   *)
(* the last call ended.  The model core (PiAgentCore) is outside the       *)
(* repository: its events arrive in any order and number.                  *)
(***************************************************************************)
\* config.contextHistoryLimit (agent.ts:538): no limit, or a small one.
ContextHistoryLimits == {0, MaxNodes - 1}

\* The text items of the final assistant message, joined: blank, plain
\* text, and text around a thinking block and a tool-call block.
ThinkBlock == <<"<", "T", "h", "i", "n", "k", ">", "y", "<", "/", "t", "h", "i", "n", "k", ">">>
ToolCallBlock == TOOL_CALL_START_TAG \o <<"j">> \o TOOL_CALL_END_TAG
FinalRawContents ==
    {<<" ">>, <<" ", "a">>, ThinkBlock \o <<" ", "a", " ">> \o ToolCallBlock \o <<"b", " ">>}

\* Nodes appended in one run of the specification, at most.
MaxTurnAppends == 4

\* `${event.toolName}: ${this.toCompactText(event.result)}` (agent.ts:1364)
ToolNodeContent == <<"t", ":", " ">> \o toCompactText(<<"r", " ", " ", "r">>)

\* `Run failed: ${this.toCompactText(error)}` (agent.ts:1424): an Error
\* object serializes to {}.
RunFailedNote == <<"Run failed: ">> \o toCompactText(<<"{", "}">>)

\* What executeStream leaves behind when it returns or throws.
EndTurn(how) ==
    /\ turnPhase' = "idle"
    /\ outcome' = how
    /\ historyForPrompt' = <<>>
    /\ systemNotes' = <<>>
    /\ streamed' = FALSE

\* if (this.isAborted()) { ...; return } before anything is read (1272-1293)
SkipAbortedTurn ==
    /\ turnPhase = "idle"
    /\ outcome # "skipped"
    /\ outcome' = "skipped"
    /\ finalRawContent' = <<>>
    /\ UNCHANGED <<turnPhase, historyForPrompt, systemNotes, turnStart, streamed,
                   logVars, parserVars, registryVars, streamVars, sessionVars>>

\* From bootstrapFromHistoryIfEmpty to append('user', userMessage)
\* (agent.ts:1308-1319); nothing else touches the log of a single Agent
\* while createPiTools is awaited.
StartTurn ==
    /\ turnPhase = "idle"
    /\ \E h \in HistoryInputs, limit \in ContextHistoryLimits, userMessage \in ContentInputs :
        /\ appended + Len(h) < MaxTurnAppends
        /\ LET L1 == bootstrapFromHistoryIfEmpty(Log, h)
               consumed == consumePendingSystemNotes(L1)
           IN /\ historyForPrompt' = getPromptHistory(L1, limit)
              /\ systemNotes' = consumed.notes
              /\ turnStart' = L1.appended
              /\ SetLog(append(consumed.log, "user", userMessage))
    /\ turnPhase' = "running"
    /\ outcome' = "none"
    /\ finalRawContent' = <<>>
    /\ UNCHANGED <<streamed, lastCheckout, parserVars, registryVars, streamVars, sessionVars>>

\* message_update / text_delta (agent.ts:1325-1327): the delta goes to
\* onChunk only; further deltas of the turn change nothing more.
TextDelta ==
    /\ turnPhase = "running"
    /\ ~streamed
    /\ streamed' = TRUE
    /\ UNCHANGED <<turnPhase, historyForPrompt, systemNotes, turnStart, finalRawContent,
                   outcome, logVars, parserVars, registryVars, streamVars, sessionVars>>

\* tool_execution_end (agent.ts:1358-1365)
ToolExecutionEnd ==
    /\ turnPhase = "running"
    /\ appended < MaxTurnAppends
    /\ SetLog(append(Log, "tool", ToolNodeContent))
    /\ UNCHANGED <<turnVars, lastCheckout, parserVars, registryVars, streamVars, sessionVars>>

\* The context_checkout tool (agent.ts:1243) runs only inside a turn, on
\* String(params?.target || '') and String(params?.summary || '').  (The
\* context_tag tool is left to the specification of the log: here it would
\* only add one more way to append a note.)
ContextCheckoutTool ==
    /\ turnPhase = "running"
    /\ appended < MaxTurnAppends
    /\ \E targetRef \in {<<>>} \cup NodeIds(nodes), summary \in SummaryInputs :
        \E r \in {checkout(Log, targetRef, summary)} :
            /\ SetLog(r.log)
            /\ lastCheckout' =
                   IF r.result.success
                   THEN LET t == NodeById(nodes, r.result.nodeId)
                        IN [seq |-> t.seq, role |-> t.role]
                   ELSE lastCheckout
    /\ UNCHANGED <<turnVars, parserVars, registryVars, streamVars, sessionVars>>

\* stripToolCallTags(extractThinkingContent(finalRawContent).cleanContent)
\* (agent.ts:1412)
finalContentOf(raw) == stripToolCallTags(extractCleanContent(raw))

\* coreAgent.prompt resolved, no abort, no error (agent.ts:1385-1423): the
\* assistant node is appended; should a callback throw afterwards, the catch
\* block appends its note as well.
CompleteTurn ==
    /\ turnPhase = "running"
    /\ appended < MaxTurnAppends
    /\ \E raw \in FinalRawContents, notified \in BOOLEAN :
        /\ notified \/ appended + 1 < MaxTurnAppends
        /\ finalRawContent' = raw
        /\ LET L1 == append(Log, "assistant", finalContentOf(raw))
           IN SetLog(IF notified THEN L1 ELSE append(L1, "note", RunFailedNote))
    /\ EndTurn("completed")
    /\ UNCHANGED <<turnStart, lastCheckout, parserVars, registryVars, streamVars, sessionVars>>

\* Mutation of executeStream: an aborted turn commits what was streamed of
\* the assistant message.
AbortTurn_CommitsPartial ==
    /\ turnPhase = "running"
    /\ appended < MaxTurnAppends
    /\ SetLog(append(Log, "assistant", <<"a">>))
    /\ EndTurn("aborted")
    /\ UNCHANGED <<turnStart, finalRawContent, lastCheckout, parserVars, registryVars,
                   streamVars, sessionVars>>

\* The abort signal fired during the turn: coreAgent.prompt resolves and
\* executeStream returns (agent.ts:1387-1396), or it rejects and the catch
\* block records the failure (agent.ts:1423-1427).
AbortTurn ==
    /\ turnPhase = "running"
    /\ \E rejected \in BOOLEAN :
        /\ rejected => appended < MaxTurnAppends
        /\ SetLog(IF rejected THEN append(Log, "note", RunFailedNote) ELSE Log)
    /\ EndTurn("aborted")
    /\ UNCHANGED <<turnStart, finalRawContent, lastCheckout, parserVars, registryVars,
                   streamVars, sessionVars>>

\* coreAgent.state.error is set or coreAgent.prompt rejected
\* (agent.ts:1398-1400, 1423-1427)
FailTurn ==
    /\ turnPhase = "running"
    /\ appended < MaxTurnAppends
    /\ SetLog(append(Log, "note", RunFailedNote))
    /\ EndTurn("failed")
    /\ UNCHANGED <<turnStart, finalRawContent, lastCheckout, parserVars, registryVars,
                   streamVars, sessionVars>>

TurnNext ==
    \/ SkipAbortedTurn
    \/ StartTurn
    \/ TextDelta
    \/ ToolExecutionEnd
    \/ ContextCheckoutTool
    \/ CompleteTurn
    \/ AbortTurn
    \/ FailTurn

SpecTurn == Init /\ [][TurnNext]_vars

(***************************************************************************)
(* The stream function (agent.ts:913-1114): one response of the completion *)
(* service, received in chunks and assembled into an assistant message.    *)
(*                                                                         *)
(* accumulatedContent is the raw text received so far, toolCalls the tool  *)
(* calls appended to the message (id "structured" for a call of the        *)
(* completion service, "fallback" for one parsed from the text, where the  *)
(* code has `fallback-${randomUUID()}`), and phase becomes "done" or       *)
(* "error" with the terminal event.  A JSON document is one token of the   *)
(* text; JSON.parse accepts exactly the documents of JsonTable.            *)
(* partialContent, activeTextIndex, activeThinkingIndex and streamEvents   *)
(* are partial.content, the two active indexes and the events pushed to    *)
(* the stream, 'start' included once the stream function has been called.  *)
(***************************************************************************)
DocObjectArgs == "{\"name\":\"f\",\"arguments\":{}}"
DocStringArgs == "{\"name\":\"g\",\"arguments\":\"{q}\"}"
DocNoArgs == "{\"name\":\"f\"}"
DocEmptyArgs == "{\"name\":\"f\",\"arguments\":\"\"}"
DocNoName == "{\"arguments\":{}}"

EmptyObject == <<"{", "}">>

\* What JSON.parse returns for each document: name and arguments as the
\* text of the value, kind "none" for a missing property.
JsonTable ==
    [doc \in {DocObjectArgs, DocStringArgs, DocNoArgs, DocEmptyArgs, DocNoName} |->
        CASE doc = DocObjectArgs -> [ok |-> TRUE, name |-> <<"f">>, kind |-> "object",
                                     arguments |-> EmptyObject]
          [] doc = DocStringArgs -> [ok |-> TRUE, name |-> <<"g">>, kind |-> "string",
                                     arguments |-> <<"{q}">>]
          [] doc = DocNoArgs -> [ok |-> TRUE, name |-> <<"f">>, kind |-> "none",
                                 arguments |-> <<>>]
          [] doc = DocEmptyArgs -> [ok |-> TRUE, name |-> <<"f">>, kind |-> "string",
                                    arguments |-> <<>>]
          [] doc = DocNoName -> [ok |-> TRUE, name |-> <<>>, kind |-> "object",
                                 arguments |-> EmptyObject]]

\* JSON.parse throwing a SyntaxError.
SyntaxError == [ok |-> FALSE, name |-> <<>>, kind |-> "none", arguments |-> <<>>]

JSONparse(str) ==
    LET s == Trim(str)
    IN IF Len(s) = 1 /\ s[1] \in DOMAIN JsonTable THEN JsonTable[s[1]] ELSE SyntaxError

\* Truthiness of parsed.name and of parsed.arguments.
Truthy(kind, value) == kind = "object" \/ (kind = "string" /\ value # <<>>)

\* Mutation of parseToolCallTags: the capture is greedy and runs to the last
\* end marker of the text.
parseToolCallTags_Greedy(content) ==
    LET i == NextLiteral(content, 0, toolCallStartLower)
        ends == {k \in 0..Len(content) : k >= i + Len(toolCallStartLower)
                                         /\ LiteralAt(content, k, toolCallEndLower)}
    IN IF i = -1 \/ ends = {} THEN <<>>
       ELSE LET j == CHOOSE k \in ends : \A m \in ends : m <= k
                parsed == JSONparse(Trim(Slice(content, i + Len(toolCallStartLower), j)))
            IN IF parsed.ok /\ parsed.name # <<>> /\ Truthy(parsed.kind, parsed.arguments)
               THEN <<[id |-> "fallback", name |-> parsed.name, arguments |-> parsed.arguments]>>
               ELSE <<>>

\* Mutation of parseToolCallTags: a document that does not parse ends the
\* pass, as if the exception left the loop.
RECURSIVE parseToolCallTags_StopsAtMalformed(_)
parseToolCallTags_StopsAtMalformed(content) ==
    LET i == NextLiteral(content, 0, toolCallStartLower)
        j == IF i = -1 THEN -1
             ELSE NextLiteral(content, i + Len(toolCallStartLower), toolCallEndLower)
    IN IF j = -1 THEN <<>>
       ELSE LET jsonStr == Trim(Slice(content, i + Len(toolCallStartLower), j))
                parsed == JSONparse(jsonStr)
                pushed == IF parsed.ok /\ parsed.name # <<>>
                             /\ Truthy(parsed.kind, parsed.arguments)
                          THEN <<[id |-> "fallback", name |-> parsed.name,
                                  arguments |-> parsed.arguments]>>
                          ELSE <<>>
            IN IF ~parsed.ok THEN <<>>
               ELSE pushed \o parseToolCallTags_StopsAtMalformed(
                                  SliceFrom(content, j + Len(toolCallEndLower)))

\* parseToolCallTags (agent.ts:70-96): the calls pushed, <<>> where the code
\* returns null.  A match of /<tool_call>\s*([\s\S]*?)\s*<\/tool_call>/gi
\* starts at the leftmost start marker that has an end marker after it and
\* ends with the first such end marker; its capture, trimmed, is the text
\* between the two markers without the whitespace around it.  A string
\* keeps its text as the arguments and JSON.stringify gives the text of an
\* object.
RECURSIVE parseToolCallTags(_)
parseToolCallTags(content) ==
    LET i == NextLiteral(content, 0, toolCallStartLower)
        j == IF i = -1 THEN -1
             ELSE NextLiteral(content, i + Len(toolCallStartLower), toolCallEndLower)
    IN IF j = -1 THEN <<>>
       ELSE LET jsonStr == Trim(Slice(content, i + Len(toolCallStartLower), j))
                parsed == JSONparse(jsonStr)
                pushed == IF parsed.ok /\ parsed.name # <<>>
                             /\ Truthy(parsed.kind, parsed.arguments)
                          THEN <<[id |-> "fallback", name |-> parsed.name,
                                  arguments |-> parsed.arguments]>>
                          ELSE <<>>
            IN pushed \o parseToolCallTags(SliceFrom(content, j + Len(toolCallEndLower)))

\* JSON.parse(toolCall.function.arguments || '{}') with {} for text that
\* does not parse (agent.ts:1003-1008).
parseArguments(arguments) ==
    IF arguments \in {EmptyObject, <<"{q}">>} THEN arguments ELSE EmptyObject

\* appendToolCalls (agent.ts:1001-1035): the tool calls of the message
\* afterwards.
appendToolCalls(message, calls) ==
    message \o [k \in 1..Len(calls) |->
                   [id |-> calls[k].id, name |-> calls[k].name,
                    arguments |-> parseArguments(calls[k].arguments)]]

(***************************************************************************)
(* The events of the response (agent.ts:936-1035).  The assembler is       *)
(* A = [content, activeTextIndex, activeThinkingIndex, events]: content is *)
(* partial.content as the sequence of the types of its blocks, an index is *)
(* 0-based as in the code, and events is what stream.push received, each   *)
(* event with its type, its contentIndex (NoIndex where it has none) and   *)
(* its reason ("" where it has none).                                      *)
(***************************************************************************)
\* activeTextIndex / activeThinkingIndex === null
NoIndex == -1

Event(type, contentIndex, reason) ==
    [type |-> type, contentIndex |-> contentIndex, reason |-> reason]

\* stream.push({ type: 'start', ... }) (agent.ts:937)
StartEvent == Event("start", NoIndex, "")

\* appendText (agent.ts:945-962)
appendText(A, delta) ==
    IF delta = <<>> THEN A
    ELSE LET A1 == IF A.activeTextIndex = NoIndex
                   THEN [A EXCEPT !.content = Append(@, "text"),
                                  !.activeTextIndex = Len(A.content),
                                  !.events = Append(@, Event("text_start", Len(A.content), ""))]
                   ELSE A
         IN IF A1.content[A1.activeTextIndex + 1] # "text" THEN A1
            ELSE [A1 EXCEPT !.events = Append(@, Event("text_delta", A1.activeTextIndex, ""))]

\* appendThinking (agent.ts:964-980)
appendThinking(A, delta) ==
    LET A1 == IF A.activeThinkingIndex = NoIndex
              THEN [A EXCEPT !.content = Append(@, "thinking"),
                             !.activeThinkingIndex = Len(A.content),
                             !.events = Append(@, Event("thinking_start", Len(A.content), ""))]
              ELSE A
    IN IF A1.content[A1.activeThinkingIndex + 1] # "thinking" THEN A1
       ELSE [A1 EXCEPT !.events = Append(@, Event("thinking_delta", A1.activeThinkingIndex, ""))]

\* Mutation of closeThinking: thinking_end is pushed but the block stays
\* the active one.
closeThinking_StaysActive(A) ==
    IF A.activeThinkingIndex = NoIndex THEN A
    ELSE IF A.content[A.activeThinkingIndex + 1] = "thinking"
         THEN [A EXCEPT !.events = Append(@, Event("thinking_end", A.activeThinkingIndex, ""))]
         ELSE A

\* closeThinking (agent.ts:982-993)
closeThinking(A) ==
    IF A.activeThinkingIndex = NoIndex THEN A
    ELSE LET A1 == IF A.content[A.activeThinkingIndex + 1] = "thinking"
                   THEN [A EXCEPT !.events =
                            Append(@, Event("thinking_end", A.activeThinkingIndex, ""))]
                   ELSE A
         IN [A1 EXCEPT !.activeThinkingIndex = NoIndex]

\* The handlers given to createStreamParser (agent.ts:995-999) applied to
\* what the parser emitted in one call, in order: onText, onThink and
\* onThinkEnd; no onThinkStart handler is given.
RECURSIVE applyHandlers(_, _)
applyHandlers(A, emitted) ==
    IF emitted = <<>> THEN A
    ELSE LET e == Head(emitted)
             A1 == IF e.type = "text" THEN appendText(A, e.text)
                   ELSE IF e.type = "think" THEN appendThinking(A, e.text)
                   ELSE IF e.type = "thinkEnd" THEN closeThinking(A)
                   ELSE A
         IN applyHandlers(A1, Tail(emitted))

\* appendToolCalls (agent.ts:1001-1035) on partial.content and the stream:
\* each call becomes a block of its own with its three events.
RECURSIVE pushToolCalls(_, _)
pushToolCalls(A, calls) ==
    IF calls = <<>> THEN A
    ELSE LET index == Len(A.content)
         IN pushToolCalls(
                [A EXCEPT !.content = Append(@, "toolCall"),
                          !.events = @ \o <<Event("toolcall_start", index, ""),
                                            Event("toolcall_delta", index, ""),
                                            Event("toolcall_end", index, "")>>],
                Tail(calls))

\* if (activeTextIndex !== null) { ... text_end ... } (agent.ts:1075-1086)
textEnd(A) ==
    IF A.activeTextIndex = NoIndex THEN A
    ELSE LET A1 == IF A.content[A.activeTextIndex + 1] = "text"
                   THEN [A EXCEPT !.events =
                            Append(@, Event("text_end", A.activeTextIndex, ""))]
                   ELSE A
         IN [A1 EXCEPT !.activeTextIndex = NoIndex]

\* Mutation of doneReason: the finish reason of the completion service
\* decides.
doneReason_FromFinishReason(toolCallsSeen, finishReason) ==
    IF finishReason = "tool_calls" THEN "toolUse"
    ELSE IF finishReason = "length" THEN "length"
    ELSE "stop"

\* doneReason (agent.ts:1088-1092)
doneReason(toolCallsSeen, finishReason) ==
    IF toolCallsSeen THEN "toolUse"
    ELSE IF finishReason = "length" THEN "length"
    ELSE "stop"

\* finishReason when the loop is left: 'stop' unless a chunk with isFinished
\* gave another one (agent.ts:940, 1059-1061).
FinishReasons == {"stop", "length", "tool_calls"}

Assembler == [content |-> partialContent, activeTextIndex |-> activeTextIndex,
              activeThinkingIndex |-> activeThinkingIndex, events |-> streamEvents]

SetAssembler(A) ==
    /\ partialContent' = A.content
    /\ activeTextIndex' = A.activeTextIndex
    /\ activeThinkingIndex' = A.activeThinkingIndex
    /\ streamEvents' = A.events

\* chunk.tool_calls of one chunk: none, or one call of the completion
\* service.
StructuredCall == [id |-> "structured", name |-> <<"h">>, arguments |-> <<"{q}">>]

\* The pieces of a response text: tool-call blocks around a document with
\* object arguments (upper-case start marker, whitespace around the
\* document), with string arguments, without arguments, with empty
\* arguments, without a name and around text that is no JSON; a block that
\* is not terminated; plain text.
Block(body) == TOOL_CALL_START_TAG \o body \o TOOL_CALL_END_TAG

ResponsePieces == {
    <<"<","T","O","O","L","_","C","A","L","L",">", " ", DocObjectArgs, "\n">>
        \o TOOL_CALL_END_TAG,
    Block(<<DocStringArgs>>),
    Block(<<DocNoArgs>>),
    Block(<<DocEmptyArgs>>),
    Block(<<DocNoName>>),
    Block(<<"x">>),
    TOOL_CALL_START_TAG \o <<DocObjectArgs>>,
    <<"x">> }

RECURSIVE ResponsesOf(_)
ResponsesOf(n) ==
    IF n = 0 THEN {<<>>}
    ELSE LET shorter == ResponsesOf(n - 1)
         IN shorter \cup {s \o t : s \in shorter, t \in ResponsePieces}

\* Lengths of chunk.content: a few characters, or all that is left.
ChunkLen == 9
ChunkLens(rest) == {0, Min(ChunkLen, Len(rest)), Len(rest)}

ResponseInit ==
    /\ buffer = <<>>
    /\ mode = "text"
    /\ currentThinkTag = <<>>
    /\ text \in ResponsesOf(MaxTokens)
    /\ input = text
    /\ phase = "streaming"
    /\ contentOut = <<>>
    /\ thinkOut = <<>>
    /\ accumulatedContent = <<>>
    /\ hasToolCalls = FALSE
    /\ toolCalls = <<>>
    /\ partialContent = <<>>
    /\ activeTextIndex = NoIndex
    /\ activeThinkingIndex = NoIndex
    /\ streamEvents = <<StartEvent>>

\* One iteration of for await (const chunk of chatStream(...))
\* (agent.ts:1040-1062); the model delivers at most one structured call.
ReceiveChunk ==
    /\ phase = "streaming"
    /\ \E n \in ChunkLens(input),
          calls \in {<<>>} \cup (IF hasToolCalls THEN {} ELSE {<<StructuredCall>>}) :
        /\ n > 0 \/ calls # <<>>
        /\ accumulatedContent' = accumulatedContent \o SubSeq(input, 1, n)
        /\ \E p \in {IF n > 0 THEN push(ParserOf(buffer, mode, currentThinkTag),
                                        SubSeq(input, 1, n))
                     ELSE ParserOf(buffer, mode, currentThinkTag)} :
              /\ ParserResult(p)
              /\ SetAssembler(pushToolCalls(applyHandlers(Assembler, p.events), calls))
        /\ input' = SubSeq(input, n + 1, Len(input))
        /\ toolCalls' = appendToolCalls(toolCalls, calls)
        /\ hasToolCalls' = (hasToolCalls \/ calls # <<>>)
    /\ UNCHANGED <<text, phase, logVars, registryVars, turnVars, sessionVars>>

\* The stream has ended (agent.ts:1064-1097): flush, the fallback pass, done.
EndOfStream ==
    /\ phase = "streaming"
    /\ input = <<>>
    /\ \E p \in {flush(ParserOf(buffer, mode, currentThinkTag))},
          finishReason \in FinishReasons :
        /\ ParserResult(p)
        /\ LET fallbackToolCalls == parseToolCallTags(accumulatedContent)
               extracted == IF ~hasToolCalls /\ hasToolCallTags(accumulatedContent)
                               /\ Len(fallbackToolCalls) > 0
                            THEN fallbackToolCalls ELSE <<>>
               A == textEnd(pushToolCalls(closeThinking(applyHandlers(Assembler, p.events)),
                                          extracted))
           IN /\ toolCalls' = appendToolCalls(toolCalls, extracted)
              /\ hasToolCalls' = (hasToolCalls \/ extracted # <<>>)
              /\ SetAssembler([A EXCEPT !.events =
                    Append(@, Event("done", NoIndex,
                              doneReason(hasToolCalls \/ extracted # <<>>, finishReason)))])
    /\ phase' = "done"
    /\ UNCHANGED <<text, input, accumulatedContent, logVars, registryVars, turnVars, sessionVars>>

\* chatStream threw or was aborted (agent.ts:1098-1109)
StreamError ==
    /\ phase = "streaming"
    /\ phase' = "error"
    /\ \E reason \in {"error", "aborted"} :
        streamEvents' = Append(streamEvents, Event("error", NoIndex, reason))
    /\ UNCHANGED <<buffer, mode, currentThinkTag, text, input, contentOut, thinkOut,
                   accumulatedContent, hasToolCalls, toolCalls, partialContent,
                   activeTextIndex, activeThinkingIndex,
                   logVars, registryVars, turnVars, sessionVars>>

ResponseNext ==
    \/ ReceiveChunk
    \/ EndOfStream
    \/ StreamError

InitResponse == ResponseInit /\ LogInit /\ RegistryInit /\ TurnIdle /\ NoAgents

SpecResponse == InitResponse /\ [][ResponseNext]_vars

(***************************************************************************)
(* Responses with thinking blocks: the same stream function on texts made  *)
(* of a whole thinking block, a thinking start marker, a close marker,     *)
(* plain text and one tool-call block, so that several thinking blocks,    *)
(* text and tool calls interleave.                                         *)
(***************************************************************************)
ThinkingPieces == {
    <<"<","t","h","i","n","k",">","x","<","/","t","h","i","n","k",">">>,
    <<"<","T","h","i","n","k",">">>,
    <<"<","/","t","h","i","n","k",">">>,
    <<"x", "x">>,
    Block(<<DocObjectArgs>>) }

RECURSIVE ThinkingResponsesOf(_)
ThinkingResponsesOf(n) ==
    IF n = 0 THEN {<<>>}
    ELSE LET shorter == ThinkingResponsesOf(n - 1)
         IN shorter \cup {s \o t : s \in shorter, t \in ThinkingPieces}

InitThinkingResponse ==
    /\ buffer = <<>>
    /\ mode = "text"
    /\ currentThinkTag = <<>>
    /\ text \in ThinkingResponsesOf(MaxTokens)
    /\ input = text
    /\ phase = "streaming"
    /\ contentOut = <<>>
    /\ thinkOut = <<>>
    /\ accumulatedContent = <<>>
    /\ hasToolCalls = FALSE
    /\ toolCalls = <<>>
    /\ partialContent = <<>>
    /\ activeTextIndex = NoIndex
    /\ activeThinkingIndex = NoIndex
    /\ streamEvents = <<StartEvent>>
    /\ LogInit /\ RegistryInit /\ TurnIdle /\ NoAgents

SpecThinkingResponse == InitThinkingResponse /\ [][ResponseNext]_vars

(***************************************************************************)
(* Agents of several sessions (agent.ts:541, sessionLog.ts:318-338)        *)
(*                                                                         *)
(* Every Agent asks the registry for the log of its (sessionId,            *)
(* conversationId) pair when it is constructed and then works on that log. *)
(* sessionOf is the pair of each agent, logOf the instance it was given    *)
(* (its construction ordinal, 0 before the agent exists) and logStore the  *)
(* AgentSessionLog instances by ordinal.  The fields of an instance belong *)
(* to it alone (sessionLog.ts:66-74); the only module-level state is the   *)
(* registry Map.                                                           *)
(***************************************************************************)
\* Pairs agents are constructed with: no conversation id, the conversation
\* ids "draft" and "c", and ids that hold the separator of the key.
SessionPairs == {
    [sessionId |-> <<"a">>, conversationId |-> NULL],
    [sessionId |-> <<"a">>, conversationId |-> <<"d", "r", "a", "f", "t">>],
    [sessionId |-> <<"a">>, conversationId |-> <<"c">>],
    [sessionId |-> <<"a", ":", ":", "b">>, conversationId |-> <<"c">>],
    [sessionId |-> <<"a">>, conversationId |-> <<"b", ":", ":", "c">>] }

\* Nodes appended to one log, at most.
MaxSessionAppends == 2

\* getSnapshot (sessionLog.ts:213-233) without the key; the preview of a
\* recent node is computed from its content, which stands for it here.
getSnapshot(L) ==
    [headNodeId |-> IF L.nodes = <<>> THEN NULL ELSE L.nodes[Len(L.nodes)].id,
     activeAnchorNodeId |-> L.activeAnchorNodeId,
     nodeCount |-> Len(L.nodes),
     tagCount |-> Cardinality(L.tags),
     checkoutCount |-> Len(L.checkouts),
     segmentSize |-> getSegmentSize(L),
     recentNodes |-> L.nodes,
     checkouts |-> L.checkouts]

\* new Agent(...): this.sessionLog = getAgentSessionLog(sessionId,
\* conversationId) (agent.ts:541)
AgentOpens ==
    /\ \E x \in Agents, pair \in SessionPairs :
        /\ logOf[x] = 0
        /\ \E r \in {getAgentSessionLog(Registry, pair.sessionId, pair.conversationId)} :
            /\ sessionLogs' = r.registry.entries
            /\ logsCreated' = r.registry.created
            /\ logOf' = [logOf EXCEPT ![x] = r.log]
            /\ logStore' = IF r.log > Len(logStore) THEN Append(logStore, NewLog)
                           ELSE logStore
        /\ sessionOf' = [sessionOf EXCEPT ![x] = pair]
    /\ UNCHANGED <<held, parserVars, logVars, turnVars, streamVars>>

\* The operations an agent performs on its log: the appends of a turn
\* (agent.ts:1319), the context tools (agent.ts:1213, 1243) and the drain of
\* the pending notes (agent.ts:635).
SessionOps == {"append", "tag", "checkout", "consume"}

ApplyOp(L, op) ==
    CASE op = "append" -> append(L, "user", <<" ", "x", " ">>)
      [] op = "tag" -> tag(L, <<"u">>, <<>>, <<>>).log
      [] op = "checkout" -> checkout(L, <<>>, <<" ", "s", " ">>).log
      [] op = "consume" -> consumePendingSystemNotes(L).log

\* The instances after agent x has performed op on its log.
StoreAfter(x, op) == [logStore EXCEPT ![logOf[x]] = ApplyOp(@, op)]

AgentOperates ==
    /\ \E x \in Agents, op \in SessionOps :
        /\ logOf[x] # 0
        /\ logStore[logOf[x]].appended < MaxSessionAppends
        /\ logStore' = StoreAfter(x, op)
    /\ UNCHANGED <<sessionOf, logOf, parserVars, logVars, registryVars, turnVars, streamVars>>

SessionsNext ==
    \/ AgentOpens
    \/ AgentOperates

InitSessions == NoAgents /\ LogInit /\ ParserIdle /\ RegistryInit /\ TurnIdle /\ StreamIdle

SpecSessions == InitSessions /\ [][SessionsNext]_vars

(***************************************************************************)
(* Claims about the tag-stream parser                                      *)
(***************************************************************************)
ContentOf(p) == ChannelText(p.events, "text")
ThinkingOf(p) == ChannelText(p.events, "think")

\* C1: once the stream has been pushed in chunks and flushed, the content
\* channel and the thinking channel each hold exactly what one push of the
\* whole text followed by flush emits on that channel.
C1_ChunkingEqualsSinglePush ==
    phase = "flushed" =>
        /\ contentOut = ContentOf(SinglePush(text))
        /\ thinkOut = ThinkingOf(SinglePush(text))

\* C2: the content channel never holds tool-call markup: neither the start
\* marker nor the end marker occurs (case-insensitively) in what was emitted
\* as content so far.
C2_NoToolCallMarkupInContent ==
    /\ ~Contains(ToLowerCase(contentOut), toolCallStartLower)
    /\ ~Contains(ToLowerCase(contentOut), toolCallEndLower)

(***************************************************************************)
(* Claims about the session log.  Every state of Spec is the state at the  *)
(* return of a public operation.  A claim about what one call leaves       *)
(* behind is checked in every reachable state for every call the inputs    *)
(* allow from it.                                                          *)
(***************************************************************************)
LiveIds == NodeIds(nodes)
Limits == 0..(MaxNodes + 1)
HeadOf(L) == L.nodes[Len(L.nodes)]
Occurrences(seq, e) == Cardinality({i \in 1..Len(seq) : seq[i] = e})
Evicted == appended > Len(nodes)

\* C3: at the return of every public operation the log holds at most
\* maxNodes nodes.
C3_NodeCountBounded == Len(nodes) <= maxNodes

\* Nodes have been evicted and the log is full.
C3_Witness == Evicted /\ Len(nodes) = maxNodes

\* C4: the active anchor is null or the id of a node present in the log.
C4_AnchorIsLive == activeAnchorNodeId = NULL \/ activeAnchorNodeId \in LiveIds

\* The target of the last checkout has been evicted and the anchor moved to
\* a surviving node.
C4_Witness ==
    /\ lastCheckout.seq > 0
    /\ nodes # <<>>
    /\ lastCheckout.seq < nodes[1].seq
    /\ activeAnchorNodeId # NULL

\* C5: every entry of the tag index references a node present in the log.
C5_TagIndexIsLive == \A e \in tags : e.nodeId \in LiveIds

\* A tag was set with a note, whose node is still there, and the entry is
\* gone: entries leave the index only when their node is evicted.
C5_Witness ==
    /\ tags = {}
    /\ \E i \in 1..Len(nodes) : nodes[i].role = "note" /\ Head(nodes[i].content) = "Tag "

\* C6: every retained checkout record has a toNodeId, and a fromNodeId when
\* non-null, that reference nodes present in the log.
C6_CheckoutsAreLive ==
    \A i \in 1..Len(checkouts) :
        /\ checkouts[i].toNodeId \in LiveIds
        /\ checkouts[i].fromNodeId # NULL => checkouts[i].fromNodeId \in LiveIds

\* A checkout succeeded and no record is left: its record was purged with
\* the node it referenced.
C6_Witness == lastCheckout.seq > 0 /\ checkouts = <<>> /\ nodes # <<>>

\* C7 as stated: after a successful checkout, and until the next one, no
\* getPromptHistory result holds a node that precedes the target node,
\* whatever node the reference resolved to.
C7_HistoryExcludesBeforeTarget ==
    lastCheckout.seq > 0 =>
        \A limit \in Limits :
            LET scoped == scopedNodes(Log, limit)
            IN \A i \in 1..Len(scoped) : scoped[i].seq >= lastCheckout.seq

\* C7 amended: the same, for a target node whose role is user or assistant.
C7_HistoryExcludesBeforeConversationTarget ==
    (lastCheckout.seq > 0 /\ lastCheckout.role \in {"user", "assistant"}) =>
        \A limit \in Limits :
            LET scoped == scopedNodes(Log, limit)
            IN \A i \in 1..Len(scoped) : scoped[i].seq >= lastCheckout.seq

\* The target is a live conversation node and an older conversation node is
\* still in the log, so the history has something to exclude.
C7_Witness ==
    /\ lastCheckout.seq > 0
    /\ lastCheckout.role \in {"user", "assistant"}
    /\ \E i, j \in 1..Len(nodes) :
        /\ nodes[j].seq = lastCheckout.seq
        /\ nodes[i].seq < lastCheckout.seq
        /\ nodes[i].role \in {"user", "assistant"}

\* What a successful checkout(targetRef, summary) on log L leaves behind in
\* r.log, parts of C8: a pending note holding the summary was enqueued last,
\* and the head is a Note node appended by this call.
CheckoutEnqueuedNote(L, r, summary) ==
    LET q == r.log.pendingSystemNotes
    IN /\ q # <<>>
       /\ Contains(q[Len(q)], Trim(summary))
       /\ Len(L.pendingSystemNotes) < MAX_PENDING_SYSTEM_NOTES
            => q = Append(L.pendingSystemNotes, q[Len(q)])

CheckoutAppendedNote(L, r) ==
    /\ r.log.nodes # <<>>
    /\ HeadOf(r.log).role = "note"
    /\ HeadOf(r.log).seq = L.appended + 1

CheckoutRecorded(L, r) ==
    \E i \in 1..Len(r.log.checkouts) :
        /\ r.log.checkouts[i].toNodeId = r.result.nodeId
        /\ r.log.checkouts[i].fromNodeId = HeadOf(L).id

\* The summaries and tag names that are not blank: a call given a blank one
\* returns before it looks at the log.
GivenSummaries == {summary \in SummaryInputs : Trim(summary) # <<>>}
GivenTags == {tagName \in TagInputs : normalizeTag(tagName) # <<>>}

\* C8 as stated: when checkout returns success with toNodeId = N, the anchor
\* is N, the history holds a record from the previous head to N, one pending
\* note holding the summary was enqueued and the head is a new Note node.
C8_CheckoutPostcondition ==
    \A targetRef \in RefInputs, summary \in GivenSummaries :
        \A r \in {checkout(Log, targetRef, summary)} :
           r.result.success =>
            /\ r.log.activeAnchorNodeId = r.result.nodeId
            /\ CheckoutRecorded(Log, r)
            /\ CheckoutEnqueuedNote(Log, r, summary)
            /\ CheckoutAppendedNote(Log, r)

\* C8 amended: the anchor is N and the record from the previous head to N is
\* there provided N is still in the log at return, that is unless the Note
\* append of this very checkout evicted N; the pending note and the new Note
\* head are there in every case.
C8_CheckoutPostconditionUnlessEvicted ==
    \A targetRef \in RefInputs, summary \in GivenSummaries :
        \A r \in {checkout(Log, targetRef, summary)} :
           r.result.success =>
            /\ r.result.nodeId \in NodeIds(r.log.nodes) =>
                /\ r.log.activeAnchorNodeId = r.result.nodeId
                /\ CheckoutRecorded(Log, r)
            /\ Len(nodes) < maxNodes => r.result.nodeId \in NodeIds(r.log.nodes)
            /\ CheckoutEnqueuedNote(Log, r, summary)
            /\ CheckoutAppendedNote(Log, r)

\* A checkout has just returned: its Note is the head, its target is the
\* anchor and is live, its record is the newest and its pending note the last.
C8_Witness ==
    /\ nodes # <<>> /\ checkouts # <<>> /\ pendingSystemNotes # <<>>
    /\ HeadOf(Log).role = "note"
    /\ Head(HeadOf(Log).content) = "Checkout to "
    /\ checkouts[Len(checkouts)].toNodeId = activeAnchorNodeId
    /\ activeAnchorNodeId \in LiveIds
    /\ Evicted

\* C9: a tag name is in the tag set of at most one live node, the node the
\* tag index maps the name to.
C9_TagOnOneNode ==
    \A i \in 1..Len(nodes) :
        \A k \in 1..Len(nodes[i].tags) :
            TagsGet(tags, nodes[i].tags[k]) = nodes[i].id

\* What a successful tag leaves behind on its target node, part of C10.
TagHolds(r, name) ==
    /\ Occurrences(NodeById(r.log.nodes, r.result.nodeId).tags, name) = 1
    /\ TagsGet(r.log.tags, name) = r.result.nodeId

\* C10 as stated: when tag returns success with nodeId = N, N is a live
\* node, its tag set holds the normalized name exactly once and the tag index
\* maps the name to N, with or without a note.
C10_TagPostcondition ==
    \A tagName \in GivenTags, targetRef \in RefInputs, note \in NoteInputs :
        \A r \in {tag(Log, tagName, targetRef, note)} :
           r.result.success =>
            /\ r.result.nodeId \in NodeIds(r.log.nodes)
            /\ TagHolds(r, normalizeTag(tagName))

\* C10 amended: the same provided N is still in the log at return, which it
\* is whenever no note is supplied or the log was not full; a note appended
\* to a full log evicts the oldest node, and N with its tag when N is that
\* node.
C10_TagPostconditionUnlessEvicted ==
    \A tagName \in GivenTags, targetRef \in RefInputs, note \in NoteInputs :
        \A r \in {tag(Log, tagName, targetRef, note)} :
           r.result.success =>
            /\ r.result.nodeId \in NodeIds(r.log.nodes)
                => TagHolds(r, normalizeTag(tagName))
            /\ (Trim(note) = <<>> \/ Len(nodes) < maxNodes)
                => r.result.nodeId \in NodeIds(r.log.nodes)

\* A tag with a note has just returned on a log that had evicted nodes: the
\* note is the head and the tagged node is live and indexed.
C10_Witness ==
    /\ nodes # <<>>
    /\ HeadOf(Log).role = "note"
    /\ Head(HeadOf(Log).content) = "Tag "
    /\ Evicted
    /\ \E e \in tags : e.nodeId \in LiveIds
                       /\ Occurrences(NodeById(nodes, e.nodeId).tags, e.tag) = 1

\* The oldest node of ns whose role is user or assistant, NULL when none.
OldestConversation(ns) ==
    IF \E i \in 1..Len(ns) : ns[i].role \in {"user", "assistant"}
    THEN ns[CHOOSE i \in 1..Len(ns) :
                /\ ns[i].role \in {"user", "assistant"}
                /\ \A j \in 1..(i - 1) : ns[j].role \notin {"user", "assistant"}].id
    ELSE NULL

\* The step is a successful checkout: its Note is the new head.
IsCheckoutStep ==
    /\ appended' = appended + 1
    /\ nodes' # <<>>
    /\ nodes'[Len(nodes')].role = "note"
    /\ Head(nodes'[Len(nodes')].content) = "Checkout to "

\* The anchor the log holds when the pruning of this step runs: the target
\* a checkout has just set, the anchor of the state before otherwise.
AnchorBeforePruning ==
    IF IsCheckoutStep
    THEN CHOOSE id \in NodeIds(nodes) :
            StartsWith(nodes'[Len(nodes')].content, <<"Checkout to ">> \o id \o <<": ">>)
    ELSE activeAnchorNodeId

\* C11: in every step, when the node the anchor references is evicted the
\* anchor becomes the oldest remaining user or assistant node, or null when
\* there is none; when it is not evicted the anchor is left as it was.
C11_AnchorRehomedToOldestConversation ==
    [][IF AnchorBeforePruning # NULL /\ AnchorBeforePruning \notin NodeIds(nodes')
       THEN activeAnchorNodeId' = OldestConversation(nodes')
       ELSE activeAnchorNodeId' = AnchorBeforePruning]_vars

\* The target of the last checkout has been evicted, the oldest remaining
\* node is a Note, and the anchor is the oldest conversation node after it.
C11_Witness ==
    /\ lastCheckout.seq > 0
    /\ nodes # <<>>
    /\ lastCheckout.seq < nodes[1].seq
    /\ nodes[1].role = "note"
    /\ activeAnchorNodeId # NULL
    /\ activeAnchorNodeId = OldestConversation(nodes)

(***************************************************************************)
(* Tool-call blocks in the parser                                          *)
(***************************************************************************)
\* The chunk a step pushes (empty for flush) and what the step emits.
ChunkOfStep == SubSeq(input, 1, Len(input) - Len(input'))
ContentOfStep == SubSeq(contentOut', Len(contentOut) + 1, Len(contentOut'))
ThinkingOfStep == SubSeq(thinkOut', Len(thinkOut) + 1, Len(thinkOut'))

\* Where the first end marker of s starts (0-based, whatever its case), -1
\* when s holds none.
EndMarkerAt(s) ==
    LET n == Len(TOOL_CALL_END_TAG)
        hits == {k \in 0..(Len(s) - n) : ToLowerCase(SubSeq(s, k + 1, k + n)) = toolCallEndLower}
    IN IF hits = {} THEN -1 ELSE CHOOSE k \in hits : \A j \in hits : k <= j

\* a is b with some of its characters left out.
RECURSIVE IsSubsequence(_, _)
IsSubsequence(a, b) ==
    IF a = <<>> THEN TRUE
    ELSE IF b = <<>> THEN FALSE
    ELSE IF Head(a) = Head(b) THEN IsSubsequence(Tail(a), Tail(b))
    ELSE IsSubsequence(a, Tail(b))

\* C12: a call made while the parser is inside a tool-call block emits
\* nothing as long as the end marker has not arrived, flush inside a block
\* emits nothing and drops the residue, and the call that receives the end
\* marker emits only text that follows the marker.  (A block entered in the
\* middle of a call continues from the same mode and buffer as one entered
\* at the end of a call.)
C12_ToolCallTextNeverEmitted ==
    [][mode = "tool_call" =>
        LET whole == buffer \o ChunkOfStep
            k == EndMarkerAt(whole)
        IN IF phase' = "flushed"
           THEN ContentOfStep = <<>> /\ ThinkingOfStep = <<>> /\ buffer' = <<>>
           ELSE IF k = -1
           THEN ContentOfStep = <<>> /\ ThinkingOfStep = <<>> /\ mode' = "tool_call"
           ELSE LET after == SliceFrom(whole, k + Len(TOOL_CALL_END_TAG))
                IN /\ IsSubsequence(ContentOfStep, after)
                   /\ IsSubsequence(ThinkingOfStep, after)
                   /\ Len(ContentOfStep) + Len(ThinkingOfStep) <= Len(after)]_vars

\* The stream ended inside a block that held more text than the retained
\* tail: all of it was pushed, flush has run and none of it was emitted.
C12_Witness ==
    /\ phase = "flushed"
    /\ mode = "tool_call"
    /\ buffer = <<>>
    /\ Contains(text, TOOL_CALL_START_TAG \o Filler)
    /\ ~Contains(contentOut, <<"x">>)

(***************************************************************************)
(* Prompt history, snapshot and pending notes of the session log           *)
(***************************************************************************)
HistoryLimits == 0..(MaxNodes + 1)

\* The nodes that qualify for the prompt history: the user and assistant
\* nodes, from the anchor on when the anchor is one of them.
Qualifying ==
    LET IsConv(i) == nodes[i].role \in {"user", "assistant"}
        from == IF \E i \in 1..Len(nodes) : IsConv(i) /\ nodes[i].id = activeAnchorNodeId
                THEN CHOOSE i \in 1..Len(nodes) : nodes[i].id = activeAnchorNodeId
                ELSE 1
        Keep(n) == n.role \in {"user", "assistant"} /\ n.seq >= nodes[from].seq
    IN IF nodes = <<>> THEN <<>> ELSE SelectSeq(nodes, Keep)

\* h is the last `count` nodes of Qualifying, oldest first, as messages.
IsRecentHistory(h, count) ==
    /\ Len(h) = count
    /\ \A i \in 1..count :
        LET n == Qualifying[Len(Qualifying) - count + i]
        IN h[i] = [role |-> n.role, content |-> n.content]

\* C13 as stated: for every limit, getPromptHistory(limit) returns user and
\* assistant nodes only, oldest first, never more than limit of them, and
\* exactly the most recent limit when more qualify.
C13_HistoryWithinLimit ==
    \A limit \in HistoryLimits :
        LET h == getPromptHistory(Log, limit)
        IN /\ Len(h) <= limit
           /\ IsRecentHistory(h, Len(h))
           /\ Len(Qualifying) > limit => Len(h) = limit

\* C13 amended: the same for every limit above zero; with a limit of zero
\* every qualifying node is returned.
C13_HistoryWithinPositiveLimit ==
    \A limit \in HistoryLimits :
        LET h == getPromptHistory(Log, limit)
        IN IF limit > 0
           THEN /\ Len(h) <= limit
                /\ IsRecentHistory(h, Min(limit, Len(Qualifying)))
           ELSE IsRecentHistory(h, Len(Qualifying))

\* The anchor is a conversation node and two nodes qualify, with a Note
\* between them: a limit of one cuts the history.
C13_Witness ==
    /\ activeAnchorNodeId # NULL
    /\ Len(Qualifying) = 2
    /\ Len(nodes) = 3
    /\ nodes[2].role = "note"
    /\ Len(getPromptHistory(Log, 1)) = 1

\* C14: segmentSize is the number of nodes that follow the most recent node
\* some tag index entry points to: 0 when that node is the head, the node
\* count when the index points to no live node.
C14_SegmentSizeSinceIndexedNode ==
    LET indexed == {i \in 1..Len(nodes) : \E e \in tags : e.nodeId = nodes[i].id}
    IN getSegmentSize(Log) =
           IF indexed = {} THEN Len(nodes)
           ELSE Len(nodes) - (CHOOSE i \in indexed : \A j \in indexed : j <= i)

\* A consume call returns the whole queue, oldest first, and leaves it
\* empty, so that a second call in a row returns nothing.
ConsumeReturnsQueue ==
    LET r == consumePendingSystemNotes(Log)
    IN /\ r.notes = pendingSystemNotes
       /\ r.log = [Log EXCEPT !.pendingSystemNotes = <<>>]
       /\ consumePendingSystemNotes(r.log).notes = <<>>

\* What a step does to the queue: nothing, or a checkout enqueues one note
\* at the end (the oldest is dropped when the queue is full), or a consume
\* takes all of it at once and changes nothing else.
QueueStep ==
    \/ pendingSystemNotes' = pendingSystemNotes
    \/ /\ IsCheckoutStep
       /\ pendingSystemNotes' # <<>>
       /\ LET note == pendingSystemNotes'[Len(pendingSystemNotes')]
          IN pendingSystemNotes' =
                 IF Len(pendingSystemNotes) < MAX_PENDING_SYSTEM_NOTES
                 THEN Append(pendingSystemNotes, note)
                 ELSE Append(Tail(pendingSystemNotes), note)
    \/ /\ pendingSystemNotes' = <<>>
       /\ UNCHANGED <<nodes, tags, checkouts, activeAnchorNodeId, bootstrapped, appended>>

\* C15: consumePendingSystemNotes returns the queued notes in enqueue order
\* and empties the queue; notes enter the queue at its end and leave it only
\* all together through a consume (or through the size bound), so each is
\* returned once, and a consume with no checkout since the last returns none.
C15_NotesConsumedOnce == []ConsumeReturnsQueue /\ [][QueueStep]_vars

\* A checkout has succeeded, its Note is still the head, and its pending
\* note is gone from the queue: a consume has returned it.
C15_Witness ==
    /\ lastCheckout.seq > 0
    /\ nodes # <<>>
    /\ Head(HeadOf(Log).content) = "Checkout to "
    /\ pendingSystemNotes = <<>>

(***************************************************************************)
(* Contracts of single calls on the session log                            *)
(***************************************************************************)
\* Histories a bootstrap call may be given: those the driver uses and one
\* with more messages than the log can hold.
BootstrapHistories ==
    HistoryInputs \cup
        {[i \in 1..(MaxNodes + 1) |->
             Message(IF i % 2 = 1 THEN "user" ELSE "assistant", <<"x", " ">>)]}

\* The messages of h a bootstrap seeds, in input order.
Seeds(h) ==
    LET Seeded(m) == m.role \in {"user", "assistant"} /\ Trim(m.content) # <<>>
    IN SelectSeq(h, Seeded)

\* C16: a bootstrap call adds no node when the log has nodes, when a
\* bootstrap call was made before or when the input is empty; otherwise it
\* appends the user and assistant messages with non-blank content, trimmed
\* and in input order (the log keeping the last maxNodes of them).  Every call
\* marks the log as bootstrapped.
C16_BootstrapSeedsOnce ==
    \A h \in BootstrapHistories :
        LET B == bootstrapFromHistoryIfEmpty(Log, h)
            seeds == Seeds(h)
            kept == Min(Len(seeds), maxNodes)
        IN /\ B.bootstrapped
           /\ IF nodes # <<>> \/ bootstrapped \/ h = <<>>
              THEN B = [Log EXCEPT !.bootstrapped = TRUE]
              ELSE /\ B.appended = Len(seeds)
                   /\ Len(B.nodes) = kept
                   /\ \A i \in 1..kept :
                        LET m == seeds[Len(seeds) - kept + i]
                        IN /\ B.nodes[i].role = m.role
                           /\ B.nodes[i].content = Trim(m.content)
                           /\ B.nodes[i].seq = Len(seeds) - kept + i

\* The log was seeded from a history: a user and an assistant node are all
\* that was ever appended, and the log is marked.
C16_Witness ==
    /\ bootstrapped
    /\ appended = 2
    /\ Len(nodes) = 2
    /\ nodes[1].role = "user"
    /\ nodes[2].role = "assistant"

\* A reference resolves to a node of the log: blank and the log has a head,
\* or the name of an indexed tag, or an id or the beginning of an id.
Resolvable(targetRef) ==
    LET ref == Trim(targetRef)
    IN IF ref = <<>> THEN nodes # <<>>
       ELSE \/ \E e \in tags : e.tag = ref /\ e.nodeId \in LiveIds
            \/ \E i \in 1..Len(nodes) : nodes[i].id = ref \/ StartsWith(nodes[i].id, ref)

\* C17: tag fails exactly when the name is blank or no target resolves,
\* checkout exactly when no target resolves or the summary is blank; a call
\* that fails returns success = FALSE and leaves the whole log as it was.
\* tag is called with a note, which only a call that succeeds appends.
C17_FailedCallsChangeNothing ==
    /\ \A tagName \in TagInputs, targetRef \in RefInputs :
        \A r \in {tag(Log, tagName, targetRef, <<" ", "n">>)} :
            /\ r.result.success = ~(Trim(tagName) = <<>> \/ ~Resolvable(targetRef))
            /\ ~r.result.success => r.log = Log
    /\ \A targetRef \in RefInputs, summary \in SummaryInputs :
        \A r \in {checkout(Log, targetRef, summary)} :
            /\ r.result.success = ~(~Resolvable(targetRef) \/ Trim(summary) = <<>>)
            /\ ~r.result.success => r.log = Log

\* A log with nodes, a tag, a checkout record, an anchor and a pending note
\* on which a tag call and a checkout call fail for want of a target.
C17_Witness ==
    /\ nodes # <<>> /\ tags # {} /\ checkouts # <<>> /\ pendingSystemNotes # <<>>
    /\ activeAnchorNodeId # NULL
    /\ \E targetRef \in RefInputs :
        /\ ~Resolvable(targetRef)
        /\ ~tag(Log, <<" ", "u", " ", " ", "v">>, targetRef, <<" ", "n">>).result.success
        /\ ~checkout(Log, targetRef, <<" ", "s", " ">>).result.success

\* Roles and contents an append call may be given.
SessionNodeRoles == {"user", "assistant", "tool", "note"}
AppendContents == ContentInputs \cup {<<>>, <<"\n", "x", " ", "y", "\t">>}

\* C18: append with content that is blank after trimming changes nothing;
\* otherwise it adds exactly one node, the new head, holding the role and the
\* trimmed content (the log dropping its oldest node when it was full).
C18_AppendTrimsOrSkips ==
    \A role \in SessionNodeRoles, content \in AppendContents :
        \A A \in {append(Log, role, content)} :
            IF Trim(content) = <<>> THEN A = Log
            ELSE /\ A.appended = appended + 1
                 /\ A.nodes # <<>>
                 /\ HeadOf(A).role = role
                 /\ HeadOf(A).content = Trim(content)
                 /\ HeadOf(A).tags = <<>>
                 /\ HeadOf(A).id \notin LiveIds
                 /\ LET before == IF Len(nodes) < maxNodes THEN nodes ELSE Tail(nodes)
                    IN A.nodes = Append(before, HeadOf(A))

\* An append has stored trimmed content as the head of a log that was full.
C18_Witness ==
    /\ Evicted
    /\ Len(nodes) = maxNodes
    /\ HeadOf(Log).role = "user"
    /\ HeadOf(Log).content = <<"x">>
    /\ HeadOf(Log).seq = appended

(***************************************************************************)
(* Claims about the registry of session logs                               *)
(***************************************************************************)
Draft == <<"d","r","a","f","t">>

ConversationInputs == {NULL, Draft, <<"c","1">>, <<"c","2">>}

\* The conversation id as the key spells it.
DraftIfBlank(conversationId) == IF conversationId = NULL THEN Draft ELSE conversationId

\* The log a call for session S1 without a conversation id returns now is the
\* log the previous such call returned.
SameLogAgain == \A r \in {getAgentSessionLog(Registry, S1, NULL)} : r.log = held

\* Two consecutive calls for S1 with these conversation ids return two logs.
DistinctLogs(c1, c2) ==
    \A r1 \in {getAgentSessionLog(Registry, S1, c1)} :
        \A r2 \in {getAgentSessionLog(r1.registry, S1, c2)} : r1.log # r2.log

\* C19 (as stated): any two calls of getAgentSessionLog with the same
\* (sessionId, conversationId) return the identical instance, whatever other
\* registry calls happen between them, and a call with a different
\* conversationId returns a different instance.  The second half is read
\* for conversation ids that are given and not empty.
C19_SamePairSameInstance ==
    /\ held # 0 => SameLogAgain
    /\ \A c1, c2 \in ConversationInputs \ {NULL} : c1 # c2 => DistinctLogs(c1, c2)

\* C19 (amended): two calls with the same (sessionId, conversationId) return
\* the identical instance provided fewer than MAX_SESSION_LOG_INSTANCES other
\* logs were created since that instance was created; a call with the same
\* sessionId and a different conversationId returns a different instance,
\* where an absent or empty conversationId counts as 'draft'.
C19_SameInstanceWhileRetained ==
    /\ (held # 0 /\ logsCreated - held < MAX_SESSION_LOG_INSTANCES) => SameLogAgain
    /\ \A c1, c2 \in ConversationInputs :
           DraftIfBlank(c1) # DraftIfBlank(c2) => DistinctLogs(c1, c2)

\* The log held for S1 is the oldest of a full registry whose earlier entries
\* have been evicted: one more creation evicts it.
C19_Witness ==
    /\ held > 1
    /\ Len(sessionLogs) = MAX_SESSION_LOG_INSTANCES
    /\ sessionLogs[1].log = held
    /\ logsCreated - held = MAX_SESSION_LOG_INSTANCES - 1

\* The entries stand in the order their logs were created in.
InCreationOrder(entries) ==
    \A i \in 1..(Len(entries) - 1) : entries[i].log < entries[i + 1].log

SessionInputs == {S1, FreshSession}

\* C20: after every registry call the registry holds at most
\* MAX_SESSION_LOG_INSTANCES logs; a lookup hit leaves the registry as it is
\* (the age of the entry is not refreshed); a creation appends the new entry
\* and, when that exceeds the bound, removes the entry created earliest and
\* retains the one just created.
C20_RegistryBoundedOldestFirst ==
    /\ Len(sessionLogs) <= MAX_SESSION_LOG_INSTANCES
    /\ InCreationOrder(sessionLogs)
    /\ \A sessionId \in SessionInputs, conversationId \in ConversationInputs :
           \A r \in {getAgentSessionLog(Registry, sessionId, conversationId)} :
               IF ~Missing(sessionId, conversationId)
               THEN r.registry = Registry
               ELSE LET full == Len(sessionLogs) = MAX_SESSION_LOG_INSTANCES
                        kept == IF full THEN Tail(sessionLogs) ELSE sessionLogs
                        created == [key |-> buildAgentSessionLogKey(sessionId, conversationId),
                                    log |-> logsCreated + 1]
                    IN /\ r.log = created.log
                       /\ r.registry.created = created.log
                       /\ r.registry.entries = Append(kept, created)
                       /\ Len(r.registry.entries) <= MAX_SESSION_LOG_INSTANCES
                       /\ InCreationOrder(r.registry.entries)

\* Entries have been evicted from a full registry and the log of S1, created
\* neither first nor last, is still in it.
C20_Witness ==
    /\ Len(sessionLogs) = MAX_SESSION_LOG_INSTANCES
    /\ logsCreated > MAX_SESSION_LOG_INSTANCES
    /\ \E i \in 2..(Len(sessionLogs) - 1) : sessionLogs[i].log = held

(***************************************************************************)
(* The node sequence of the session log                                    *)
(***************************************************************************)
\* C25 (as stated): a successful checkout leaves every node that was in the
\* log in place with its id, role, content and tags, and the node sequence
\* afterwards is the one before with one Note node appended at the end.
C25_CheckoutKeepsEveryNode ==
    [][IsCheckoutStep => nodes' = Append(nodes, nodes'[Len(nodes')])]_vars

\* C25 (amended): the node sequence afterwards is the one before with one
\* Note node appended at the end, less its oldest node when the log already
\* held maxNodes nodes; every node that is left has the id, role, content
\* and tags it had.
C25_CheckoutKeepsNodesButOldest ==
    [][IsCheckoutStep =>
        LET kept == IF Len(nodes) < maxNodes THEN nodes ELSE Tail(nodes)
        IN nodes' = Append(kept, nodes'[Len(nodes')])]_vars

\* A checkout has just returned on a log that was full: its Note is the head,
\* the oldest node is gone and the target is still in the log.
C25_Witness ==
    /\ Len(nodes) = maxNodes
    /\ nodes[1].seq > 1
    /\ nodes[Len(nodes)].role = "note"
    /\ Head(nodes[Len(nodes)].content) = "Checkout to "
    /\ nodes[Len(nodes)].seq = appended
    /\ \E i \in 1..(Len(nodes) - 1) : nodes[i].seq = lastCheckout.seq

\* What never changes in a node: all of it but its tags.
Core(node) == [id |-> node.id, role |-> node.role, content |-> node.content, seq |-> node.seq]

\* The live nodes are the last Len(nodes) of the nodes ever appended, in the
\* order of their appends.
LiveNodesAreLatest ==
    \A i \in 1..Len(nodes) : nodes[i].seq = appended - Len(nodes) + i

\* A step keeps a suffix of the nodes it found, each with its id, role and
\* content, and puts nodes appended by this step after them.
NodesStep ==
    \E d \in 0..Len(nodes) :
        LET kept == Len(nodes) - d
        IN /\ Len(nodes') >= kept
           /\ \A i \in 1..kept : Core(nodes'[i]) = Core(nodes[d + i])
           /\ \A i \in (kept + 1)..Len(nodes') : nodes'[i].seq > appended

\* C26: at every moment the live nodes are a contiguous suffix, in original
\* order, of the sequence of all nodes ever appended; nodes are only added
\* at the end and only removed from the front, and the id, role and content
\* of a node never change.
C26_LiveNodesAreSuffix == []LiveNodesAreLatest /\ [][NodesStep]_vars

\* Nodes have been evicted from a full log, and a node that is left has been
\* given a tag since it was appended.
C26_Witness ==
    /\ Len(nodes) = maxNodes
    /\ nodes[1].seq = appended - maxNodes + 1
    /\ nodes[1].seq > 1
    /\ \E i \in 1..Len(nodes) : nodes[i].tags # <<>>

(***************************************************************************)
(* Tag names as target references                                          *)
(***************************************************************************)
\* C27: a name for which tag succeeded (the index holds an entry under its
\* normalized form) resolves, when passed as targetRef, to the node the index
\* holds for it, for every name tag accepts and as long as that node is live.
C27_TagNameResolvesToIndexedNode ==
    \A tagName \in GivenTags :
        \A e \in tags :
            (e.tag = normalizeTag(tagName) /\ e.nodeId \in LiveIds) =>
                LET target == resolveTargetNode(Log, tagName)
                IN target # 0 /\ nodes[target].id = e.nodeId

(***************************************************************************)
(* The bounds of the checkout history and of the pending-note queue        *)
(***************************************************************************)
\* The last n elements of a sequence, all of it when it is not longer.
KeepLast(seq, n) == IF Len(seq) > n THEN SubSeq(seq, Len(seq) - n + 1, Len(seq)) ELSE seq

HistoryAndQueueBounded ==
    /\ Len(checkouts) <= maxCheckouts
    /\ Len(pendingSystemNotes) <= MAX_PENDING_SYSTEM_NOTES

\* The record of the checkout this step made: from the head of the log it
\* found to the target, with the summary its Note ends with.
RecordsOfStep ==
    {[fromNodeId |-> nodes[Len(nodes)].id, toNodeId |-> AnchorBeforePruning,
      summary |-> Trim(summary)] : summary \in GivenSummaries}

\* The queue afterwards is the queue before with the note of this checkout
\* at its end, cut to its last MAX_PENDING_SYSTEM_NOTES notes.
QueueKeepsNewest ==
    /\ pendingSystemNotes' # <<>>
    /\ pendingSystemNotes' =
           KeepLast(Append(pendingSystemNotes, pendingSystemNotes'[Len(pendingSystemNotes')]),
                    MAX_PENDING_SYSTEM_NOTES)
    /\ Contains(pendingSystemNotes'[Len(pendingSystemNotes')], AnchorBeforePruning)

\* The history afterwards is the history before with the record of this
\* checkout at its end, cut to its last maxCheckouts records.
HistoryKeepsNewest ==
    \E record \in RecordsOfStep :
        checkouts' = KeepLast(Append(checkouts, record), maxCheckouts)

\* The same, less the records that name a node this step evicted.
HistoryKeepsNewestLive ==
    \E record \in RecordsOfStep :
        checkouts' = pruneCheckouts(KeepLast(Append(checkouts, record), maxCheckouts),
                                    NodeIds(nodes) \ NodeIds(nodes'))

\* C30 (as stated): after any sequence of checkouts the history holds at
\* most maxCheckouts records and the queue at most MAX_PENDING_SYSTEM_NOTES
\* notes; when a bound is exceeded the oldest entries are dropped and the
\* newest entry is kept.
C30_BoundsDropOldestKeepNewest ==
    /\ []HistoryAndQueueBounded
    /\ [][IsCheckoutStep =>
            /\ Len(pendingSystemNotes) = MAX_PENDING_SYSTEM_NOTES => QueueKeepsNewest
            /\ Len(checkouts) = maxCheckouts => HistoryKeepsNewest]_vars

\* C30 (amended): the same, except that the newest record of the history is
\* removed again when it names a node that the append of the checkout's Note
\* evicts from a full log.  Stated for every checkout, the bound exceeded or
\* not.
C30_BoundsDropOldestKeepNewestLive ==
    /\ []HistoryAndQueueBounded
    /\ [][IsCheckoutStep => QueueKeepsNewest /\ HistoryKeepsNewestLive]_vars

\* More checkouts than the queue is long have been made without a drain:
\* the queue is full and its oldest note names a node evicted long ago, and
\* the history holds the record of the last checkout only.
C30_Witness ==
    /\ Len(pendingSystemNotes) = MAX_PENDING_SYSTEM_NOTES
    /\ appended > MAX_PENDING_SYSTEM_NOTES + 1
    /\ Len(checkouts) = maxCheckouts
    /\ checkouts[Len(checkouts)].toNodeId = activeAnchorNodeId
    /\ \A id \in LiveIds : ~Contains(pendingSystemNotes[1], id)

(***************************************************************************)
(* Plain text and the final flush of the parser                            *)
(***************************************************************************)
\* No start marker occurs in s, whatever the case of its letters.
NoStartMarker(s) == findNextTagIndex(ToLowerCase(s)) = NoHit

\* C28: for input that contains no start marker (stray '<' characters and
\* close tags without an open one included), under every chunking what has
\* been emitted as content, what the buffer retains and what is still to be
\* pushed make up the input, in order; nothing is emitted as thinking; and
\* once flush has run the content is the input exactly.
C28_PlainTextPassesThrough ==
    NoStartMarker(text) =>
        /\ thinkOut = <<>>
        /\ contentOut \o buffer \o input = text
        /\ phase = "flushed" => contentOut = text

\* A text longer than the retained tail, with a stray '<', U+0130 and an
\* unmatched close tag but no start marker, has been pushed and flushed.
C28_Witness ==
    /\ phase = "flushed"
    /\ NoStartMarker(text)
    /\ Contains(text, <<"<">> \o Filler)
    /\ Contains(text, <<"U0130">>)
    /\ contentOut = text

\* What flush has to emit from the current parser state: the whole buffer
\* in one fragment on the channel of the mode, nothing for an empty buffer
\* or inside a tool-call block.
FlushFragments ==
    IF buffer = <<>> THEN <<>>
    ELSE IF mode = "text" THEN <<TextEv(buffer)>>
    ELSE IF mode = "think" THEN <<ThinkEv(buffer, currentThinkTag)>>
    ELSE <<>>

\* C29: flush emits the whole remaining buffer as one content fragment in
\* text mode, as one thinking fragment in think mode and nothing in
\* tool_call mode; in every mode it leaves the buffer empty (and the mode as
\* it was), so that a second flush emits nothing.
C29_FlushEmitsRemainder ==
    \A f \in {flush(ParserOf(buffer, mode, currentThinkTag))} :
        /\ f.events = FlushFragments
        /\ f.buffer = <<>>
        /\ f.mode = mode
        /\ flush(ParserOf(f.buffer, f.mode, f.currentThinkTag)).events = <<>>

\* The stream ended inside a thinking block: flush has emitted the retained
\* tail as thinking and left the buffer empty.
C29_Witness ==
    /\ phase = "flushed"
    /\ mode = "think"
    /\ buffer = <<>>
    /\ text = <<"<","T","h","i","n","k",">">> \o Filler \o <<"<">>
    /\ thinkOut = Filler \o <<"<">>
    /\ contentOut = <<>>


(***************************************************************************)
(* The turns of executeStream                                              *)
(***************************************************************************)
\* executeStream passes from the reads to the running turn, and a step
\* inside a running turn.
IsStartStep == turnPhase = "idle" /\ turnPhase' = "running"
InTurnStep == turnPhase = "running" /\ turnPhase' = "running"

\* The turn starts by reading the prompt history from the log as it is
\* before the turn's user message is appended, and by draining the queue of
\* pending notes into the system prompt.
ReadAtStart ==
    IsStartStep =>
        /\ \E h \in HistoryInputs, limit \in ContextHistoryLimits :
              historyForPrompt' = getPromptHistory(bootstrapFromHistoryIfEmpty(Log, h), limit)
        /\ systemNotes' = pendingSystemNotes
        /\ pendingSystemNotes' = <<>>

\* Nothing that happens inside the turn changes what the model was given.
GivenInputFixed == InTurnStep => UNCHANGED <<historyForPrompt, systemNotes>>

\* A checkout inside the turn sets the anchor and queues its note, and both
\* wait in the log: the note is the newest of the queue and is not among the
\* notes of the turn's system prompt.
CheckoutDeferred ==
    InTurnStep /\ IsCheckoutStep =>
        /\ pendingSystemNotes' # <<>>
        /\ LET note == pendingSystemNotes'[Len(pendingSystemNotes')]
           IN /\ note = CheckoutNote(AnchorBeforePruning,
                                     Slice(Trim(<<" ", "s", " ">>), 0, SummaryMaxLen))
              /\ pendingSystemNotes' = pushPendingNote(pendingSystemNotes, note)
        /\ UNCHANGED <<historyForPrompt, systemNotes>>

\* C23: a checkout made by the context_checkout tool during a turn leaves
\* the prompt history and the system notes given to the model for that turn
\* as they are: executeStream reads the history and drains the pending notes
\* once, at the start of the turn, from the log as it is before the user
\* message is appended and before any tool runs; the note of the checkout
\* waits in the queue, and the next executeStream on the log reads the
\* history under the anchor the log then holds and is given the queued notes.
C23_CheckoutTakesEffectNextTurn ==
    [][ReadAtStart /\ GivenInputFixed /\ CheckoutDeferred]_vars

\* A turn is running that was given the note of a checkout of an earlier
\* turn and a history of older messages; a checkout of its own, to the user
\* message of this turn, has moved the anchor and is waiting in the queue.
C23_Witness ==
    /\ turnPhase = "running"
    /\ systemNotes # <<>>
    /\ pendingSystemNotes # <<>>
    /\ historyForPrompt # <<>>
    /\ \E i \in 1..Len(nodes) :
        /\ nodes[i].id = activeAnchorNodeId
        /\ nodes[i].role = "user"
        /\ nodes[i].seq > turnStart


\* The live Assistant nodes the current turn (the last one, between turns)
\* has appended.
TurnAssistants == {i \in 1..Len(nodes) : nodes[i].role = "assistant" /\ nodes[i].seq > turnStart}

\* At most one Assistant node per turn, and none while the turn is running
\* or when it was aborted or failed.
OneAssistantPerTurn ==
    /\ Cardinality(TurnAssistants) <= 1
    /\ (turnPhase = "running" \/ outcome \in {"aborted", "failed"}) => TurnAssistants = {}

\* A step appends an Assistant node of the turn only as the completion of a
\* turn that was neither aborted nor failed, and the node holds the final
\* content: the text of the final assistant message without its thinking
\* and tool-call blocks, trimmed.
AssistantOnlyOnCompletion ==
    \A i \in 1..Len(nodes') :
        (nodes'[i].role = "assistant" /\ nodes'[i].seq > appended /\ nodes'[i].seq > turnStart')
            => /\ turnPhase = "running"
               /\ turnPhase' = "idle"
               /\ outcome' = "completed"
               /\ TurnAssistants = {}
               /\ nodes'[i].content = finalContentOf(finalRawContent')
               /\ ~hasToolCallTags(nodes'[i].content)
               /\ nodes'[i].content = Trim(nodes'[i].content)

\* Forwarding a streaming delta appends nothing.
DeltasNotAppended == (InTurnStep /\ streamed' # streamed) => UNCHANGED <<nodes, appended>>

\* Every node of the turn found by a step of the turn is still in the log
\* after the step.
TurnNodesKept ==
    turnPhase = "running" =>
        \A i \in 1..Len(nodes) :
            nodes[i].seq > turnStart => \E j \in 1..Len(nodes') : nodes'[j].id = nodes[i].id

\* A step removes nodes only from the front of the log and only when its
\* appends make the log exceed maxNodes: the log afterwards is the last
\* maxNodes of the nodes found followed by the nodes appended.
NodesLeaveOnlyByCapacity ==
    LET added == appended' - appended
        kept == Len(nodes') - added
    IN /\ kept >= 0
       /\ Len(nodes') = Min(Len(nodes) + added, maxNodes)
       /\ \A i \in 1..kept : nodes'[i].id = nodes[Len(nodes) - kept + i].id
       /\ \A i \in (kept + 1)..Len(nodes') : nodes'[i].seq > appended

Fallbacks == SelectSeq(toolCalls, LAMBDA c : c.id = "fallback")
Structured == SelectSeq(toolCalls, LAMBDA c : c.id = "structured")

\* The bodies of the complete blocks of s in text order.  A block opens at a
\* start marker, whatever its case, and closes at the first end marker
\* behind it; the next block is looked for behind that end marker, and a
\* block that never closes is not complete.
RECURSIVE CompleteBlocks(_)
CompleteBlocks(s) ==
    LET folded == [k \in 1..Len(s) |-> FoldChar(s[k])]
        open == IndexOf(folded, TOOL_CALL_START_TAG)
        inside == SliceFrom(s, open + Len(TOOL_CALL_START_TAG))
        close == IndexOf(SliceFrom(folded, open + Len(TOOL_CALL_START_TAG)), TOOL_CALL_END_TAG)
    IN IF open = -1 \/ close = -1 THEN <<>>
       ELSE <<Slice(inside, 0, close)>>
                \o CompleteBlocks(SliceFrom(inside, close + Len(TOOL_CALL_END_TAG)))

\* The body is a JSON document with a name and arguments, both non-empty.
HasNameAndArguments(body) ==
    LET doc == JSONparse(body)
    IN doc.ok /\ doc.name # <<>> /\ doc.kind # "none" /\ doc.arguments # <<>>

\* One tool call per complete block with a name and arguments, in text order.
ExpectedCalls(s) ==
    LET qualifying == SelectSeq(CompleteBlocks(s), HasNameAndArguments)
    IN [k \in 1..Len(qualifying) |->
            [id |-> "fallback", name |-> JSONparse(qualifying[k]).name,
             arguments |-> JSONparse(qualifying[k]).arguments]]

\* C24: no tool call is extracted from the text while the stream is open or
\* when it failed; once the stream has ended, none is extracted if a
\* structured tool call arrived during the response, and otherwise each
\* complete block of the accumulated text whose JSON has a non-empty name
\* and non-empty arguments (an object, or a string) has yielded exactly one
\* tool call, in text order, and nothing else has: not a block that is not
\* terminated, not a block whose body is no such document.
C24_FallbackAfterEndWithoutStructured ==
    /\ phase \in {"streaming", "error"} => Fallbacks = <<>>
    /\ phase = "done" =>
        /\ accumulatedContent = text
        /\ Fallbacks = IF Structured # <<>> THEN <<>> ELSE ExpectedCalls(text)

\* The stream has ended without a structured call on a text of two complete
\* blocks and a block that is not terminated: the two blocks have yielded
\* their calls in text order, the last block none.
C24_Witness ==
    /\ phase = "done"
    /\ Structured = <<>>
    /\ Len(Fallbacks) = 2
    /\ Fallbacks[1].name = <<"f">>
    /\ Fallbacks[2].name = <<"g">>
    /\ text[Len(text)] = DocObjectArgs


(***************************************************************************)
(* Logs of different sessions                                              *)
(***************************************************************************)
\* What a holder of the log can observe of it.
Observables(L) ==
    [snapshot |-> getSnapshot(L), history |-> getPromptHistory(L, 0),
     notes |-> L.pendingSystemNotes]

\* Whatever agent x does on its log leaves the observables of the log of
\* agent y as they are.
Undisturbed(x, y) ==
    \A op \in SessionOps :
        Observables(StoreAfter(x, op)[logOf[y]]) = Observables(logStore[logOf[y]])

\* C21: the logs the registry hands out for two different (sessionId,
\* conversationId) pairs share no state: no operation on one changes the
\* snapshot, the prompt history or the pending notes of the other, whatever
\* strings the two ids of each pair are.
C21_DifferentPairsShareNoState ==
    \A x, y \in Agents :
        (/\ logOf[x] # 0
         /\ logOf[y] # 0
         /\ sessionOf[x].conversationId # NULL
         /\ sessionOf[y].conversationId # NULL
         /\ sessionOf[x] # sessionOf[y]) => Undisturbed(x, y)

\* The same for pairs that the registry files under different keys.
DifferentKeysShareNoState ==
    \A x, y \in Agents :
        (/\ logOf[x] # 0
         /\ logOf[y] # 0
         /\ buildAgentSessionLogKey(sessionOf[x].sessionId, sessionOf[x].conversationId)
                # buildAgentSessionLogKey(sessionOf[y].sessionId, sessionOf[y].conversationId))
            => logOf[x] # logOf[y] /\ Undisturbed(x, y)

(***************************************************************************)
(* tag without a target (sessionLog.ts:140-162, 265-268)                   *)
(***************************************************************************)
\* A target that is omitted (the empty string here) or blank.
BlankRefs == {<<>>, <<" ", " ">>}

\* C31: on a log that is not empty, tag with a name that is not blank and
\* the target omitted or blank succeeds, returns the id of the head (the
\* last-appended node) and leaves the name on that node and in the index;
\* without a note the tagged node is still the head and the snapshot's
\* segmentSize is 0, and whenever the head carries a tag segmentSize is 0.
C31_TagDefaultsToHead ==
    \A tagName \in GivenTags, targetRef \in BlankRefs, note \in NoteInputs :
        nodes # <<>> =>
            \A r \in {tag(Log, tagName, targetRef, note)} :
                /\ r.result.success
                /\ r.result.nodeId = HeadOf(Log).id
                /\ r.result.nodeId \in NodeIds(r.log.nodes)
                /\ Includes(NodeById(r.log.nodes, r.result.nodeId).tags, normalizeTag(tagName))
                /\ TagsGet(r.log.tags, normalizeTag(tagName)) = r.result.nodeId
                /\ Trim(note) = <<>> =>
                    /\ HeadOf(r.log).id = r.result.nodeId
                    /\ getSnapshot(r.log).segmentSize = 0
                /\ Len(HeadOf(r.log).tags) > 0 => getSnapshot(r.log).segmentSize = 0

\* The head of a log of several nodes carries a tag that the index maps to
\* it while an older node carries none: a tag without target has acted, and
\* the segment is empty.
C31_Witness ==
    /\ Len(nodes) >= 2
    /\ Len(HeadOf(Log).tags) > 0
    /\ \E e \in tags : e.nodeId = HeadOf(Log).id
    /\ Len(nodes[1].tags) = 0
    /\ getSnapshot(Log).segmentSize = 0

(***************************************************************************)
(* The order of target resolution (sessionLog.ts:265-278)                  *)
(***************************************************************************)
\* References tried in every state: every indexed name, every live id, the
\* beginnings of ids, the same inside whitespace, and text that is neither.
ResolveRefs ==
    LET plain == {e.tag : e \in tags} \cup NodeIds(nodes)
                    \cup {<<"ctx_">>, <<"ctx_", "a">>, <<"ctx_", "b">>, <<"z">>, <<"ctx_", "z">>}
    IN plain \cup {<<" ">> \o ref \o <<" ">> : ref \in plain}

\* The live nodes whose id is the reference or starts with it, by position.
IdMatches(ref) ==
    {i \in 1..Len(nodes) : nodes[i].id = ref \/ StartsWith(nodes[i].id, ref)}

\* C38: a targetRef that is not blank and is the name of an indexed tag
\* resolves to the node the index holds for that name, whatever ids it
\* matches; a reference that is no tag name resolves to the oldest live node
\* whose id is the reference or starts with it; when there is no such node
\* either, nothing resolves, and in particular not the head.
C38_TagBeforeIdOldestFirstNoFallback ==
    \A targetRef \in ResolveRefs :
        LET ref == Trim(targetRef)
            target == resolveTargetNode(Log, targetRef)
        IN IF \E e \in tags : e.tag = ref
           THEN \A e \in tags : e.tag = ref => target # 0 /\ nodes[target].id = e.nodeId
           ELSE IF IdMatches(ref) # {}
           THEN target \in IdMatches(ref) /\ \A i \in IdMatches(ref) : target <= i
           ELSE target = 0

\* A tag named "ctx_" sits on a node that is not the oldest one, every live
\* id starts with "ctx_", and the reference "ctx_" resolves to the tagged
\* node; in the same log a reference that matches nothing resolves to no
\* node although there is a head.
C38_Witness ==
    /\ Len(nodes) >= 2
    /\ \E e \in tags :
        /\ e.tag = <<"ctx_">>
        /\ e.nodeId # nodes[1].id
        /\ 1 \in IdMatches(<<"ctx_">>)
        /\ resolveTargetNode(Log, <<"ctx_">>) # 0
        /\ nodes[resolveTargetNode(Log, <<"ctx_">>)].id = e.nodeId
    /\ resolveTargetNode(Log, <<"ctx_", "b">>) = 2
    /\ resolveTargetNode(Log, <<"z">>) = 0

(***************************************************************************)
(* The processing loop of push (agent.ts:158-242)                          *)
(***************************************************************************)
\* The parser as the loop of a push step finds it: the chunk appended to the
\* buffer.
LoopStart == [ParserOf(buffer, mode, currentThinkTag) EXCEPT !.buffer = @ \o ChunkOfStep]

\* The loop run from p, observed: the parser it ends with, the number of
\* iterations it runs, and whether every iteration that did not leave the
\* loop (break) left the buffer shorter than it found it.  safety counts
\* the iterations as the code does.
RECURSIVE LoopRun(_, _, _)
LoopRun(p, safety, consumes) ==
    IF p.buffer = <<>> \/ safety >= SafetyLimit
    THEN [p |-> p, iterations |-> safety, consumes |-> consumes]
    ELSE \* safety += 1
         LET r == StepMode(p)
         IN IF r.again
            THEN LoopRun(r.p, safety + 1, consumes /\ Len(r.p.buffer) < Len(p.buffer))
            ELSE [p |-> r.p, iterations |-> safety + 1, consumes |-> consumes]

\* C33: in every push, each iteration of the loop either exits or consumes
\* at least one buffered character, so the loop runs at most once per
\* buffered character and never more than SafetyLimit times, and the call
\* returns the parser the loop ended with; flush runs no loop and returns
\* with the buffer empty.
C33_LoopConsumesOrExits ==
    [][IF phase' = "flushed"
       THEN buffer' = <<>>
       ELSE \A start \in {LoopStart} :
              \A run \in {LoopRun(start, 0, TRUE)} :
                /\ run.consumes
                /\ run.iterations <= Len(start.buffer)
                /\ run.iterations <= SafetyLimit
                /\ buffer' = run.p.buffer
                /\ mode' = run.p.mode]_vars

\* A thinking block, its close marker and a tool-call start marker have
\* been pushed in one call, whose loop ran three iterations, one per marker,
\* and ended on the empty buffer inside the tool-call block.
C33_Witness ==
    /\ text = <<"<","T","h","i","n","k",">">> \o <<"<","/","t","h","i","n","k",">">>
                \o TOOL_CALL_START_TAG
    /\ input = <<>>
    /\ phase = "streaming"
    /\ LoopRun(ParserOf(text, "text", <<>>), 0, TRUE).iterations = 3
    /\ buffer = LoopRun(ParserOf(text, "text", <<>>), 0, TRUE).p.buffer
    /\ mode = "tool_call"

(***************************************************************************)
(* Mode transitions of the parser (agent.ts:158-259)                       *)
(***************************************************************************)
\* s ends with the marker, whatever the case of its letters.
EndsWithMarker(s, marker) ==
    /\ Len(s) >= Len(marker)
    /\ ToLowerCase(SubSeq(s, Len(s) - Len(marker) + 1, Len(s))) = ToLowerCase(marker)

\* One iteration that takes the parser from p to q changes the mode (or the
\* tag of the thinking block) only in one of the four ways, and then the
\* text it took off the buffer ends with the start marker, which was at the
\* head of the buffer once the text in front of it was emitted, or holds the
\* close marker of the block being left.
TransitionAtMarker(p, q) ==
    LET eaten == Slice(p.buffer, 0, Len(p.buffer) - Len(q.buffer))
    IN CASE p.mode = "text" ->
              \/ q.mode = "text" /\ q.currentThinkTag = p.currentThinkTag
              \/ /\ q.mode = "think"
                 /\ \E k \in 1..Len(THINK_TAGS) :
                        /\ q.currentThinkTag = THINK_TAGS[k]
                        /\ EndsWithMarker(eaten, THINK_START_TAGS[k])
              \/ /\ q.mode = "tool_call"
                 /\ q.currentThinkTag = p.currentThinkTag
                 /\ EndsWithMarker(eaten, TOOL_CALL_START_TAG)
         [] p.mode = "think" ->
              \/ q.mode = "think" /\ q.currentThinkTag = p.currentThinkTag
              \/ /\ q.mode = "text"
                 /\ Contains(ToLowerCase(eaten), <<"<", "/">> \o p.currentThinkTag \o <<">">>)
         [] p.mode = "tool_call" ->
              \/ q.mode = "tool_call" /\ q.currentThinkTag = p.currentThinkTag
              \/ /\ q.mode = "text"
                 /\ Contains(ToLowerCase(eaten), toolCallEndLower)

\* Inside a block whose own close marker is not in the buffer an iteration
\* leaves the mode alone, whatever start markers and other close markers
\* the buffer holds.
StaysInBlock(p, q) ==
    /\ (p.mode = "think"
        /\ ~Contains(ToLowerCase(p.buffer), <<"<", "/">> \o p.currentThinkTag \o <<">">>))
            => q.mode = "think" /\ q.currentThinkTag = p.currentThinkTag
    /\ (p.mode = "tool_call" /\ ~Contains(ToLowerCase(p.buffer), toolCallEndLower))
            => q.mode = "tool_call"

RECURSIVE TransitionsAtMarkers(_, _)
TransitionsAtMarkers(p, safety) ==
    IF p.buffer = <<>> \/ safety >= SafetyLimit THEN TRUE
    ELSE \A r \in {StepMode(p)} :
            /\ TransitionAtMarker(p, r.p)
            /\ StaysInBlock(p, r.p)
            /\ r.again => TransitionsAtMarkers(r.p, safety + 1)

\* C34: every iteration of every push changes the mode only from text to
\* think(tag) on the start marker <tag>, from text to tool_call on
\* <tool_call>, from think(tag) to text on </tag> of the same tag and from
\* tool_call to text on </tool_call>, each time taking the whole marker off
\* the buffer; start markers and close markers of another kind inside a
\* block change nothing; flush leaves mode and tag as they are.
C34_ModeChangesOnlyAtMarkers ==
    [][IF phase' = "flushed"
       THEN mode' = mode /\ currentThinkTag' = currentThinkTag
       ELSE TransitionsAtMarkers(LoopStart, 0)]_vars

\* A thinking block that held the close marker of a tool-call block has been
\* left at its own close marker: the parser is back in text mode and the
\* foreign marker went out as thinking text.
C34_Witness ==
    /\ text = <<"<","T","h","i","n","k",">">> \o TOOL_CALL_END_TAG
                \o <<"<","/","t","h","i","n","k",">">>
    /\ input = <<>>
    /\ phase = "streaming"
    /\ mode = "text"
    /\ buffer = <<>>
    /\ thinkOut = TOOL_CALL_END_TAG
    /\ contentOut = <<>>

(***************************************************************************)
(* What push leaves in the buffer (agent.ts:158-249)                       *)
(***************************************************************************)
\* The markers a parser in the given mode looks for.
RelevantMarkers(m, thinkTag) ==
    IF m = "text" THEN {startTags[k] : k \in 1..Len(startTags)}
    ELSE IF m = "think" THEN {<<"<", "/">> \o thinkTag \o <<">">>}
    ELSE {TOOL_CALL_END_TAG}

LongestOf(markers) ==
    CHOOSE n \in {Len(marker) : marker \in markers} : \A marker \in markers : Len(marker) <= n

CallsOfBlocks(bodies) ==
    LET qualifying == SelectSeq(bodies, HasNameAndArguments)
    IN [k \in 1..Len(qualifying) |->
            [id |-> "fallback", name |-> JSONparse(qualifying[k]).name,
             arguments |-> JSONparse(qualifying[k]).arguments]]

\* Once the stream has ended without a structured call, for every complete
\* block whose body does not parse the calls extracted are those of the
\* blocks in front of it followed by those of the blocks behind it.
MalformedBlockSkipped ==
    (phase = "done" /\ Structured = <<>>) =>
        \A bodies \in {CompleteBlocks(accumulatedContent)} :
            \A k \in 1..Len(bodies) :
                ~JSONparse(bodies[k]).ok =>
                    Fallbacks = CallsOfBlocks(SubSeq(bodies, 1, k - 1))
                                    \o CallsOfBlocks(SubSeq(bodies, k + 1, Len(bodies)))

\* The step that ends the stream after the last chunk, with the flush and
\* the fallback pass, ends it with 'done' whatever the blocks hold; a step
\* that ends it with 'error' has run neither and extracted nothing.
FallbackPassEndsWithDone ==
    /\ (phase = "streaming" /\ toolCalls' # toolCalls /\ phase' # "streaming") => phase' = "done"
    /\ (phase = "streaming" /\ phase' = "error") =>
            UNCHANGED <<buffer, contentOut, thinkOut, accumulatedContent, toolCalls, hasToolCalls>>

\* C32: a complete <tool_call> block whose body is not JSON is skipped by
\* the fallback pass: the response still ends with 'done', never with
\* 'error' on account of the block, and every block with a name and
\* arguments in front of it or behind it has yielded its tool call.
C32_MalformedBlockSkippedStreamDone ==
    []MalformedBlockSkipped /\ [][FallbackPassEndsWithDone]_vars

\* The stream has ended with 'done' on a text of three complete blocks of
\* which the second is no JSON: the first and the third have yielded their
\* calls.
C32_Witness ==
    /\ phase = "done"
    /\ Structured = <<>>
    /\ Len(CompleteBlocks(accumulatedContent)) = 3
    /\ ~JSONparse(CompleteBlocks(accumulatedContent)[2]).ok
    /\ Len(Fallbacks) = 2
    /\ Fallbacks[1].name = <<"f">>
    /\ Fallbacks[2].name = <<"g">>

(***************************************************************************)
(* Thinking events of a response (agent.ts:964-999, 1064-1065)             *)
(***************************************************************************)
\* The positions in the stream of the events of a type for a content index.
EventsAt(type, index) ==
    {k \in 1..Len(streamEvents) :
        streamEvents[k].type = type /\ streamEvents[k].contentIndex = index}

ContentIndexes == 0..(Len(partialContent) - 1)

\* C36: in a response that has ended with 'done', every content index with
\* a thinking_start has that one thinking_start and exactly one
\* thinking_end behind it and in front of 'done', and every thinking_delta
\* of the index lies between the two; no thinking event of an index comes
\* without its thinking_start; and a block that was open when the input
\* ended (the parser still in think mode at 'done') got its thinking_end
\* behind the deltas of the flush.  While the response is open the same
\* holds but for the last block, which may still lack its thinking_end and
\* is then the active one.
C36_ThinkingStartEndPaired ==
    \A index \in ContentIndexes :
        LET starts == EventsAt("thinking_start", index)
            ends == EventsAt("thinking_end", index)
            deltas == EventsAt("thinking_delta", index)
        IN /\ Cardinality(starts) <= 1
           /\ starts = {} => ends = {} /\ deltas = {}
           /\ \A i \in starts :
                /\ \A k \in deltas : i < k
                /\ \A j \in ends : i < j /\ \A k \in deltas : k < j
                /\ Cardinality(ends) <= 1
                /\ ends = {} => activeThinkingIndex = index /\ phase # "done"
                /\ phase = "done" =>
                    /\ Cardinality(ends) = 1
                    /\ \A j \in ends : j < Len(streamEvents)
                    /\ activeThinkingIndex = NoIndex

\* A response with a closed thinking block and a second thinking block
\* that was never closed has ended with 'done': the parser
\* is still in think mode, the flush emitted the retained text as the last
\* thinking_delta of the second block and its thinking_end follows.
C36_Witness ==
    /\ phase = "done"
    /\ mode = "think"
    /\ \E index \in ContentIndexes :
        /\ \E earlier \in 0..(index - 1) : EventsAt("thinking_end", earlier) # {}
        /\ EventsAt("thinking_start", index) # {}
        /\ \E j \in EventsAt("thinking_end", index) :
              /\ streamEvents[j - 1].type = "thinking_delta"
              /\ streamEvents[j + 1].type = "done"

(***************************************************************************)
(* The shape of the event stream of a response (agent.ts:913-1114)         *)
(***************************************************************************)
EventsOfType(types) == {k \in 1..Len(streamEvents) : streamEvents[k].type \in types}

TerminalEvents == EventsOfType({"done", "error"})

\* 'start' is the first event and the only 'start'; a terminal event is the
\* last event; a response that is over has exactly one.
StartFirstOneTerminalLast ==
    /\ streamEvents # <<>>
    /\ EventsOfType({"start"}) = {1}
    /\ \A k \in TerminalEvents : k = Len(streamEvents)
    /\ phase = "streaming" => TerminalEvents = {}
    /\ phase = "done" => EventsOfType({"done"}) = {Len(streamEvents)}
    /\ phase = "error" => EventsOfType({"error"}) = {Len(streamEvents)}

\* text_end occurs at most once, and only in a response that ended with
\* 'done', in front of the 'done'.
TextEndOnceBeforeDone ==
    /\ Cardinality(EventsOfType({"text_end"})) <= 1
    /\ \A k \in EventsOfType({"text_end"}) :
            phase = "done" /\ k < Len(streamEvents)

\* C37 as stated: 'start' first, exactly one terminal event, last; text_end
\* at most once and only before 'done'; and the reason of the terminal
\* event, 'done' or 'error', is 'toolUse' exactly when a structured or
\* fallback tool call was appended.
C37_StartTerminalReason ==
    /\ StartFirstOneTerminalLast
    /\ TextEndOnceBeforeDone
    /\ \A k \in TerminalEvents :
            streamEvents[k].reason = "toolUse" <=> toolCalls # <<>>

\* C37 amended: the same, with the reason of 'done' being 'toolUse' exactly
\* when a tool call was appended (and 'stop' or 'length' otherwise), and
\* the reason of 'error' being 'error' or 'aborted' whether or not a tool
\* call was appended before the failure.
C37_StartTerminalReasonOfDone ==
    /\ StartFirstOneTerminalLast
    /\ TextEndOnceBeforeDone
    /\ \A k \in EventsOfType({"done"}) :
            /\ streamEvents[k].reason = "toolUse" <=> toolCalls # <<>>
            /\ streamEvents[k].reason \in {"toolUse", "stop", "length"}
            /\ toolCalls # <<>> <=> EventsOfType({"toolcall_end"}) # {}
    /\ \A k \in EventsOfType({"error"}) :
            streamEvents[k].reason \in {"error", "aborted"}

\* A response with text and a tool-call block in its text has ended with
\* 'done' and the reason 'toolUse': the events of the fallback call are
\* followed by text_end and 'done'.
C37_Witness ==
    /\ phase = "done"
    /\ Structured = <<>>
    /\ Fallbacks # <<>>
    /\ \E k \in EventsOfType({"text_end"}) :
        /\ streamEvents[k - 1].type = "toolcall_end"
        /\ k + 1 = Len(streamEvents)
    /\ streamEvents[Len(streamEvents)].reason = "toolUse"

====
